---- MODULE Spec2Model ----
(***************************************************************************)
(* A model of the Muffasa interpreter (src/Muffasa.py) and of its helper   *)
(* classes (src/mathforlanguage.py): the Lexer, the Parser and the         *)
(* Interpreter.                                                            *)
(*                                                                         *)
(* Text (source code, token values, names, string values) is a sequence of *)
(* one-character strings, so that slicing, strip, int() and Replace are    *)
(* computed as the code computes them.  Tokens and AST nodes are the       *)
(* tuples the code builds, tag first: <<"ASSIGN", name, expr>>.            *)
(* Python values are tagged: <<"int", 5>>, <<"bool", TRUE>>,               *)
(* <<"str", text>>, <<"ref", address>> (an object on the heap),            *)
(* <<"none">>.                                                             *)
(***************************************************************************)
EXTENDS Integers, Sequences, FiniteSets, TLC

VARIABLES
    code, position, tokens, lexState,        \* Lexer: its fields, tokenize's list and outcome
    lastRun,                                 \* history: the outcome of the run of tokenize before
    ptokens, pposition, ast, parseState,     \* Parser: its fields, parse's list and outcome
    program, pc,                             \* interpret: the AST and the index of the next statement
    variables, Dict, heap,                   \* Interpreter.variables, mathforlenguage.Dict, objects
    current_statement,                       \* Interpreter.current_statement
    trace,                                   \* history: what the interpreter did, in order
    status                                   \* "run", "done" or the name of the exception raised

lexVars == <<code, position, tokens, lexState, lastRun>>
parseVars == <<ptokens, pposition, ast, parseState>>
interpVars == <<program, pc, variables, Dict, heap, current_statement, trace, status>>
vars == <<lexVars, parseVars, interpVars>>

(***************************************************************************)
(* Bounds of the model.                                                    *)
(***************************************************************************)
MaxIter == 3        \* loop-condition evaluations one top-level statement may make
MaxLen == 4         \* length of the source texts the lexer is run on
MaxTokens == 4      \* length of the token sequences the parser is run on
MaxStatements == 3  \* statements after the first in a program over StringBeans

(***************************************************************************)
(* Python values.                                                          *)
(***************************************************************************)
None == <<"none">>
IntV(n) == <<"int", n>>
BoolV(b) == <<"bool", b>>
StrV(s) == <<"str", s>>
RefV(a) == <<"ref", a>>
TupleV(e) == <<"tuple", e>>

IsNumeric(v) == v[1] \in {"int", "bool"}
Num(v) == IF v[1] = "int" THEN v[2] ELSE IF v[2] THEN 1 ELSE 0

\* Python's == on two values
PyEq(a, b) ==
    IF IsNumeric(a) /\ IsNumeric(b) THEN Num(a) = Num(b)
    ELSE IF a[1] # b[1] THEN FALSE
    ELSE a = b

\* Python's truth value of a value (if <value>:)
Truthy(v) ==
    CASE v[1] = "int" -> v[2] # 0
      [] v[1] = "bool" -> v[2]
      [] v[1] = "str" -> v[2] # <<>>
      [] v[1] = "none" -> FALSE
      [] OTHER -> TRUE

BREAK == StrV(<<"B", "R", "E", "A", "K">>)
CONTINUE == StrV(<<"C", "O", "N", "T", "I", "N", "U", "E">>)

(***************************************************************************)
(* Text helpers.                                                           *)
(***************************************************************************)
Digits == <<"0", "1", "2", "3", "4", "5", "6", "7", "8", "9">>
UpperCase == <<"A", "B", "C", "D", "E", "F", "G", "H", "I", "J", "K", "L", "M",
               "N", "O", "P", "Q", "R", "S", "T", "U", "V", "W", "X", "Y", "Z">>
LowerCase == <<"a", "b", "c", "d", "e", "f", "g", "h", "i", "j", "k", "l", "m",
               "n", "o", "p", "q", "r", "s", "t", "u", "v", "w", "x", "y", "z">>
Range(s) == {s[i] : i \in DOMAIN s}

isdigit(c) == c \in Range(Digits)
isalpha(c) == c \in Range(UpperCase) \cup Range(LowerCase)
isalnum(c) == isalpha(c) \/ isdigit(c)
isspace(c) == c \in {" ", "\n", "\t"}

DigitVal(c) == CHOOSE d \in 0..9 : Digits[d + 1] = c
lowerChar(c) ==
    IF c \in Range(UpperCase)
    THEN LowerCase[CHOOSE k \in DOMAIN UpperCase : UpperCase[k] = c]
    ELSE c
lower(s) == [k \in DOMAIN s |-> lowerChar(s[k])]

RECURSIVE ParseNat(_)
ParseNat(s) ==
    IF s = <<>> THEN 0
    ELSE ParseNat(SubSeq(s, 1, Len(s) - 1)) * 10 + DigitVal(s[Len(s)])

\* int(text) succeeds on an optional '-' followed by one or more digits
IntOk(text) ==
    LET body == IF text # <<>> /\ text[1] = "-" THEN Tail(text) ELSE text
    IN  body # <<>> /\ \A k \in DOMAIN body : isdigit(body[k])
IntOf(text) ==
    IF text[1] = "-" THEN 0 - ParseNat(Tail(text)) ELSE ParseNat(text)

\* text.strip('"')
RECURSIVE lstrip(_, _)
lstrip(s, c) == IF s # <<>> /\ s[1] = c THEN lstrip(Tail(s), c) ELSE s
RECURSIVE rstrip(_, _)
rstrip(s, c) ==
    IF s # <<>> /\ s[Len(s)] = c THEN rstrip(SubSeq(s, 1, Len(s) - 1), c) ELSE s
strip(s, c) == rstrip(lstrip(s, c), c)

\* Python's s[i:j] on 0-based indices, 0 <= i
Slice(s, i, j) == SubSeq(s, i + 1, IF j > Len(s) THEN Len(s) ELSE j)

\* old in s
Contains(s, old) ==
    \E i \in 0..(Len(s) - Len(old)) : Slice(s, i, i + Len(old)) = old

(***************************************************************************)
(* mathforlenguage: the arithmetic and boolean helper.  A helper returns   *)
(* [err, v]: err is "" and v the value, or err names the exception.        *)
(* "Unmodelled" marks Python behaviour outside this model (floats, string  *)
(* ordering); UnmodelledUnreached below states that no run gets there.     *)
(***************************************************************************)
Ok(v) == [err |-> "", v |-> v]
Fail(e) == [err |-> e, v |-> None]
Modelled(v) == v[1] \in {"int", "bool", "str", "ref", "none"}

RECURSIVE Repeat(_, _)
Repeat(s, n) == IF n <= 0 THEN <<>> ELSE s \o Repeat(s, n - 1)

\* x + y
Add(x, y) ==
    IF ~Modelled(x) \/ ~Modelled(y) THEN Fail("Unmodelled")
    ELSE IF IsNumeric(x) /\ IsNumeric(y) THEN Ok(IntV(Num(x) + Num(y)))
    ELSE IF x[1] = "str" /\ y[1] = "str" THEN Ok(StrV(x[2] \o y[2]))
    ELSE Fail("TypeError")

\* x - y
Subtract(x, y) ==
    IF ~Modelled(x) \/ ~Modelled(y) THEN Fail("Unmodelled")
    ELSE IF IsNumeric(x) /\ IsNumeric(y) THEN Ok(IntV(Num(x) - Num(y)))
    ELSE Fail("TypeError")

\* x * y
Multiply(x, y) ==
    IF ~Modelled(x) \/ ~Modelled(y) THEN Fail("Unmodelled")
    ELSE IF IsNumeric(x) /\ IsNumeric(y) THEN Ok(IntV(Num(x) * Num(y)))
    ELSE IF x[1] = "str" /\ IsNumeric(y) THEN Ok(StrV(Repeat(x[2], Num(y))))
    ELSE IF IsNumeric(x) /\ y[1] = "str" THEN Ok(StrV(Repeat(y[2], Num(x))))
    ELSE Fail("TypeError")

assign(D, x, y) == [n \in DOMAIN D \cup {x} |-> IF n = x THEN y ELSE D[n]]

LiteralFirst_Equal(D, x, y) ==
    IF x[1] = "int" /\ y[1] = "int" THEN Ok(BoolV(x[2] = y[2]))
    ELSE IF x[1] = "str" /\ y[1] = "int" THEN Fail("TypeError")
    ELSE IF x[1] = "int" /\ y[1] = "str"
         THEN IF y[2] \in DOMAIN D THEN Ok(BoolV(PyEq(D[y[2]], x)))
              ELSE Fail("KeyError")
    ELSE IF x[1] = "str" /\ y[1] = "str"
         THEN IF x[2] \in DOMAIN D /\ y[2] \in DOMAIN D
              THEN Ok(BoolV(PyEq(D[x[2]], D[y[2]])))
              ELSE Fail("KeyError")
    ELSE Ok(None)
Equal(D, x, y) ==
    IF x[1] = "int" /\ y[1] = "int" THEN Ok(BoolV(x[2] = y[2]))
    ELSE IF x[1] = "int" /\ y[1] = "str" THEN Fail("TypeError")
    ELSE IF x[1] = "str" /\ y[1] = "int"
         THEN IF x[2] \in DOMAIN D THEN Ok(BoolV(PyEq(D[x[2]], y)))
              ELSE Fail("KeyError")
    ELSE IF x[1] = "str" /\ y[1] = "str"
         THEN IF x[2] \in DOMAIN D /\ y[2] \in DOMAIN D
              THEN Ok(BoolV(PyEq(D[x[2]], D[y[2]])))
              ELSE Fail("KeyError")
    ELSE Ok(None)

notEqual(D, x, y) ==
    LET e == Equal(D, x, y)
    IN  IF e.err # "" THEN e ELSE Ok(BoolV(~Truthy(e.v)))

greater(x, y) ==
    IF ~Modelled(x) \/ ~Modelled(y) THEN Fail("Unmodelled")
    ELSE IF IsNumeric(x) /\ IsNumeric(y) THEN Ok(BoolV(Num(x) > Num(y)))
    ELSE IF x[1] = "str" /\ y[1] = "str" THEN Fail("Unmodelled")
    ELSE Fail("TypeError")

less(x, y) ==
    IF ~Modelled(x) \/ ~Modelled(y) THEN Fail("Unmodelled")
    ELSE IF IsNumeric(x) /\ IsNumeric(y) THEN Ok(BoolV(Num(x) < Num(y)))
    ELSE IF x[1] = "str" /\ y[1] = "str" THEN Fail("Unmodelled")
    ELSE Fail("TypeError")

\* x or y, x and y
Or(x, y) == Ok(IF Truthy(x) THEN x ELSE y)
And(x, y) == Ok(IF Truthy(x) THEN y ELSE x)

Min(x, y) ==
    LET c == less(x, y) IN IF c.err # "" THEN c ELSE Ok(IF c.v[2] THEN x ELSE y)
Max(x, y) ==
    LET c == greater(x, y) IN IF c.err # "" THEN c ELSE Ok(IF c.v[2] THEN x ELSE y)

(***************************************************************************)
(* StringBeans: an object on the heap, [cls |-> "StringBeans",             *)
(* string_ |-> value].  A method returns [err, v, obj]: the exception or   *)
(* the returned value, and the object after the call.                      *)
(***************************************************************************)
StringBeans(string_) == [cls |-> "StringBeans", string_ |-> string_]

MOk(v, obj) == [err |-> "", v |-> v, obj |-> obj]
MFail(e, obj) == [err |-> e, v |-> None, obj |-> obj]

copy(obj) == StringBeans(obj.string_)

Conjoin(obj, str2) ==
    LET r == Add(obj.string_, str2)
    IN  IF r.err # "" THEN MFail(r.err, obj)
        ELSE MOk(None, [obj EXCEPT !.string_ = r.v])

\* the while loop of Replace from index i of s (0-based), old # ""
RECURSIVE ReplaceFrom(_, _, _, _)
ReplaceFrom(s, i, old, new) ==
    IF i >= Len(s) THEN <<>>
    ELSE IF Slice(s, i, i + Len(old)) = old
         THEN new \o ReplaceFrom(s, i + Len(old), old, new)
         ELSE <<s[i + 1]>> \o ReplaceFrom(s, i + 1, old, new)

Replace(obj, old, new) ==
    IF obj.string_[1] # "str" THEN MFail("AttributeError", obj)
    ELSE IF old[1] # "str" THEN MFail("TypeError", obj)
    ELSE IF ~Contains(obj.string_[2], old[2]) THEN MOk(obj.string_, obj)
    ELSE IF old[2] = <<>> THEN MFail("Hang", obj)      \* i += 0: the loop never ends
    ELSE IF new[1] # "str" THEN MFail("TypeError", obj) \* ''.join of a non-string
    ELSE LET out == StrV(ReplaceFrom(obj.string_[2], 0, old[2], new[2]))
         IN  MOk(out, [obj EXCEPT !.string_ = out])

allUpper(obj) ==
    IF obj.string_[1] # "str" THEN MFail("TypeError", obj)
    ELSE MOk(BoolV(\A k \in DOMAIN obj.string_[2] :
                      obj.string_[2][k] \notin Range(LowerCase)), obj)

allLower(obj) ==
    IF obj.string_[1] # "str" THEN MFail("TypeError", obj)
    ELSE MOk(BoolV(\A k \in DOMAIN obj.string_[2] :
                      obj.string_[2][k] \notin Range(UpperCase)), obj)

show(obj) == MOk(None, obj)

\* the names getattr finds on a StringBeans object and can call
StringBeansMethods == {<<"C", "o", "n", "j", "o", "i", "n">>,
                       <<"R", "e", "p", "l", "a", "c", "e">>,
                       <<"a", "l", "l", "U", "p", "p", "e", "r">>,
                       <<"a", "l", "l", "L", "o", "w", "e", "r">>,
                       <<"s", "h", "o", "w">>}

\* method(*evaluated_args) on a StringBeans object
call_method(obj, method_name, args) ==
    CASE method_name = <<"C", "o", "n", "j", "o", "i", "n">> ->
            IF Len(args) # 1 THEN MFail("TypeError", obj) ELSE Conjoin(obj, args[1])
      [] method_name = <<"R", "e", "p", "l", "a", "c", "e">> ->
            IF Len(args) # 2 THEN MFail("TypeError", obj)
            ELSE Replace(obj, args[1], args[2])
      [] method_name = <<"a", "l", "l", "U", "p", "p", "e", "r">> ->
            IF Len(args) # 0 THEN MFail("TypeError", obj) ELSE allUpper(obj)
      [] method_name = <<"a", "l", "l", "L", "o", "w", "e", "r">> ->
            IF Len(args) # 0 THEN MFail("TypeError", obj) ELSE allLower(obj)
      [] method_name = <<"s", "h", "o", "w">> ->
            IF Len(args) # 0 THEN MFail("TypeError", obj) ELSE show(obj)
      [] OTHER -> MFail("Unmodelled", obj)

(***************************************************************************)
(* Arrays: an object [cls |-> "Arrays", size, array], the array a sequence *)
(* of values; an index is 0-based, as in the code: array[index + 1] here   *)
(* is self.array[index].  Sizes and indices are integers.                  *)
(***************************************************************************)
Arrays(size) == [cls |-> "Arrays", size |-> size, array |-> [k \in 1..size |-> IntV(0)]]

\* "" when check_index returns True, or the exception it raises
check_index(obj, index) ==
    IF index < 0 THEN "IndexError"
    ELSE IF index >= obj.size THEN "IndexError"
    ELSE ""

at(obj, index) ==
    IF check_index(obj, index) # "" THEN MFail(check_index(obj, index), obj)
    ELSE MOk(obj.array[index + 1], obj)

insert(obj, index, item) ==
    IF check_index(obj, index) # "" THEN MFail(check_index(obj, index), obj)
    ELSE MOk(None, [obj EXCEPT !.array[index + 1] = item])

\* for i in range(self.size): the elements from the i-th on, without the
\* one at index (lines 148-151)
RECURSIVE remove_from(_, _, _)
remove_from(obj, index, i) ==
    IF i >= obj.size THEN <<>>
    ELSE IF i = index THEN remove_from(obj, index, i + 1)
    ELSE <<obj.array[i + 1]>> \o remove_from(obj, index, i + 1)

SizeKept_remove(obj, index) ==
    IF check_index(obj, index) # "" THEN MFail(check_index(obj, index), obj)
    ELSE IF obj.size = 0 THEN MFail("IndexError", obj)
    ELSE MOk(None, [obj EXCEPT !.array = remove_from(obj, index, 0)])
remove(obj, index) ==
    IF check_index(obj, index) # "" THEN MFail(check_index(obj, index), obj)
    ELSE IF obj.size = 0 THEN MFail("IndexError", obj)
    ELSE MOk(None, [obj EXCEPT !.size = @ - 1, !.array = remove_from(obj, index, 0)])

\* lines 162-172: a new list of size + 1 slots, the old elements copied by
\* index, the item in the last slot
add(obj, item) ==
    MOk(None, [obj EXCEPT !.size = @ + 1,
                          !.array = [k \in 1..(obj.size + 1) |->
                                        IF k <= obj.size THEN obj.array[k] ELSE item]])

(***************************************************************************)
(* Shmuple: an object [cls |-> "Shmuple", myTuple], the tuple a sequence   *)
(* of values.                                                              *)
(***************************************************************************)
Shmuple(args) == [cls |-> "Shmuple", myTuple |-> args]

\* tuple.__getitem__(index) for an integer index: a negative index counts
\* from the end; [err, v]
tuple_getitem(t, index) ==
    IF 0 <= index /\ index < Len(t) THEN [err |-> "", v |-> t[index + 1]]
    ELSE IF 0 - Len(t) <= index /\ index < 0 THEN [err |-> "", v |-> t[Len(t) + index + 1]]
    ELSE [err |-> "IndexError", v |-> None]

\* the value of a raised IndexError is the index and the size its message names
getitem(obj, index) ==
    IF tuple_getitem(obj.myTuple, index).err = ""
    THEN MOk(tuple_getitem(obj.myTuple, index).v, obj)
    ELSE [err |-> "IndexError", v |-> <<index, Len(obj.myTuple)>>, obj |-> obj]


(***************************************************************************)
(* The Interpreter.  I is the interpreter object: its fields variables,    *)
(* math.Dict (Dict) and current_statement, the heap of objects it made,    *)
(* err ("" or the exception that is propagating), and three history        *)
(* fields: trace (events, in order), depth (loops being executed) and fuel *)
(* (loop-condition evaluations left to the statement being interpreted).   *)
(* An operation returns I, or [I, v] when it returns a value.              *)
(***************************************************************************)
Ret(I, v) == [I |-> I, v |-> v]
Raise(I, e) == [I EXCEPT !.err = e]
Ev(kind, d, a, b) == <<kind, d, a, b>>
Log(I, e) == [I EXCEPT !.trace = Append(@, e)]
Restrict(f, S) == [n \in S |-> f[n]]
Put(f, x, y) == [n \in DOMAIN f \cup {x} |-> IF n = x THEN y ELSE f[n]]

\* the text of a node's tag, as the string Python compares names with
TagText(tag) ==
    CASE tag = "ASSIGN" -> <<"A", "S", "S", "I", "G", "N">>
      [] tag = "IF" -> <<"I", "F">>
      [] tag = "IF_ELSE" -> <<"I", "F", "_", "E", "L", "S", "E">>
      [] tag = "WHILE" -> <<"W", "H", "I", "L", "E">>
      [] tag = "FOR" -> <<"F", "O", "R">>
      [] tag = "METHOD_CALL" -> <<"M", "E", "T", "H", "O", "D", "_", "C", "A", "L", "L">>
      [] tag = "CLASS_INST" -> <<"C", "L", "A", "S", "S", "_", "I", "N", "S", "T">>
      [] tag = "ID" -> <<"I", "D">>
      [] tag = "BREAK" -> <<"B", "R", "E", "A", "K">>
      [] tag = "CONTINUE" -> <<"C", "O", "N", "T", "I", "N", "U", "E">>
      [] tag = "COMMENT" -> <<"C", "O", "M", "M", "E", "N", "T">>
      [] tag = "NUMBER" -> <<"N", "U", "M", "B", "E", "R">>
      [] tag = "BOOL" -> <<"B", "O", "O", "L">>
      [] tag = "CHAR" -> <<"C", "H", "A", "R">>
      [] tag = "CALL" -> <<"C", "A", "L", "L">>
      [] OTHER -> <<tag>>          \* an operator: never a name

\* var_name in statement: the elements of the tuple that are strings
Never_InStatement(var_name, statement) == FALSE
InStatement(var_name, statement) ==
    \/ var_name = TagText(statement[1])
    \/ /\ statement[1] \in {"ASSIGN", "ID", "COMMENT", "NUMBER", "BOOL", "CHAR",
                            "CLASS_INST", "CALL", "METHOD_CALL"}
       /\ var_name = statement[2]
    \/ /\ statement[1] = "METHOD_CALL"
       /\ var_name = statement[3]

\* the name a statement assigns, for the history
Target(stmt) == IF stmt[1] = "ASSIGN" THEN stmt[2] ELSE <<>>

to_bool(value) ==
    CASE value[1] = "bool" -> value
      [] value[1] = "int" -> BoolV(value[2] # 0)
      [] value[1] = "str" -> BoolV(lower(value[2]) = <<"t", "r", "u", "e">>)
      [] OTHER -> BoolV(Truthy(value))

apply_operator(D, op, left, right) ==
    CASE op = "+" -> Add(left, right)
      [] op = "-" -> Subtract(left, right)
      [] op = "*" -> Multiply(left, right)
      [] op = "/" -> Fail("Unmodelled")
      [] op = "^" -> Fail("Unmodelled")
      [] op = "==" -> Equal(D, left, right)
      [] op = "!=" -> notEqual(D, left, right)
      [] op = "<" -> less(left, right)
      [] op = ">" -> greater(left, right)
      [] op = "&&" -> And(to_bool(left), to_bool(right))
      [] op = "||" -> Or(to_bool(left), to_bool(right))
      [] OTHER -> Ok(None)

BinaryOps == {"+", "-", "*", "/", "==", "<", ">", "^", "!=", "&&", "||"}

\* getattr(obj, method_name, None) and whether the result can be called
method_lookup(I, objv, method_name) ==
    LET fields == {<<"s", "t", "r", "i", "n", "g", "_">>}
        known == StringBeansMethods \cup fields
                     \cup {<<"s", "p", "l", "i", "t", "B", "e", "a", "n", "s">>}
    IN  IF objv[1] = "ref"
        THEN IF method_name \in StringBeansMethods THEN "method"
             ELSE IF method_name \in fields
                  THEN IF I.heap[objv[2]].string_ = None THEN "AttributeError"
                       ELSE "notcallable"
             ELSE IF method_name \in known THEN "Unmodelled"
             ELSE "AttributeError"
        ELSE IF objv[1] \in {"int", "bool", "str"}
        THEN IF method_name \in known THEN "AttributeError" ELSE "Unmodelled"
        ELSE "Unmodelled"

\* lines 593-599 of execute_assignment: store the value, mirror it in math.Dict
NoCopy_assign_value(I, var_name, value) ==
    [I EXCEPT !.variables = Put(@, var_name, value),
              !.Dict = assign(@, var_name, value)]
assign_value(I, var_name, value) ==
    IF value[1] = "ref" /\ I.heap[value[2]].cls = "StringBeans"
    THEN [I EXCEPT !.heap = Append(@, copy(I.heap[value[2]])),
                   !.variables = Put(@, var_name, RefV(Len(I.heap) + 1)),
                   !.Dict = assign(@, var_name, value)]
    ELSE [I EXCEPT !.variables = Put(@, var_name, value),
                   !.Dict = assign(@, var_name, value)]

\* what the loops do with a body statement before execute_statement sees it
\* (lines 666-688 of execute_while, 728-748 of execute_for)
BreakAsContinue_body_dispatch(kind, stmt) ==
    CASE stmt[1] = "ASSIGN" -> "ASSIGN"
      [] stmt[1] = "BREAK" -> "CONTINUE"
      [] stmt[1] = "CONTINUE" -> "CONTINUE"
      [] stmt[1] = "COMMENT" /\ kind = "WHILE" -> "SKIP"
      [] stmt[1] \in {"IF", "IF_ELSE"} -> "IF"
      [] OTHER -> "EXEC"
body_dispatch(kind, stmt) ==
    CASE stmt[1] = "ASSIGN" -> "ASSIGN"
      [] stmt[1] = "BREAK" -> "BREAK"
      [] stmt[1] = "CONTINUE" -> "CONTINUE"
      [] stmt[1] = "COMMENT" /\ kind = "WHILE" -> "SKIP"
      [] stmt[1] \in {"IF", "IF_ELSE"} -> "IF"
      [] OTHER -> "EXEC"

\* lines 756-763 of execute_for: after the body, "incr" when the increment
\* is to be executed before the condition is checked again
ContinueFirst_for_after_body(sig) ==
    IF sig = "BREAK" THEN "exit" ELSE IF sig = "CONTINUE" THEN "cond" ELSE "incr"
for_after_body(sig) ==
    IF sig = "BREAK" THEN "exit" ELSE "incr"

\* del self.variables[n] for each n of names
del_all(I, names) ==
    IF names \subseteq DOMAIN I.variables
    THEN [I EXCEPT !.variables = Restrict(@, DOMAIN @ \ names)]
    ELSE Raise([I EXCEPT !.variables = Restrict(@, DOMAIN @ \ names)], "KeyError")


RECURSIVE Call(_, _, _)
RECURSIVE run_branch(_, _, _, _)
RECURSIVE while_loop(_, _, _, _)
RECURSIVE loop_body(_, _, _, _, _)
RECURSIVE for_loop(_, _, _, _, _)

\* line 829: self.variables.get(name, 0), the value of an identifier operand
Strict_variables_get(I, name) ==
    IF name \in DOMAIN I.variables THEN Ret(I, I.variables[name])
    ELSE Ret(Raise(I, "NameError"), None)
variables_get(I, name) ==
    Ret(I, IF name \in DOMAIN I.variables THEN I.variables[name] ELSE IntV(0))

\* [self.evaluate_expression(arg) for arg in args]
eval_args(I, args) ==
    IF args = <<>> \/ I.err # "" THEN Ret(I, <<>>)
    ELSE LET h == Call("evaluate_expression", I, <<args[1]>>)
             t == Call("eval_args", h.I, <<Tail(args)>>)
         IN  Ret(t.I, <<h.v>> \o t.v)

evaluate_expression(I, expr) ==
    IF I.err # "" THEN Ret(I, None)
    ELSE CASE expr[1] = "CALL" -> Call("execute_function_call", I, <<expr>>)
           [] expr[1] = "METHOD_CALL" -> Call("execute_method_call", I, <<expr>>)
           [] expr[1] \in BinaryOps ->
                LET l == Call("evaluate_expression", I, <<expr[2]>>)
                    r == Call("evaluate_expression", l.I, <<expr[3]>>)
                    logical == expr[1] \in {"&&", "||"}
                    res == apply_operator(r.I.Dict, expr[1],
                                          IF logical THEN to_bool(l.v) ELSE l.v,
                                          IF logical THEN to_bool(r.v) ELSE r.v)
                IN  IF r.I.err # "" THEN Ret(r.I, None)
                    ELSE IF res.err # "" THEN Ret(Raise(r.I, res.err), None)
                    ELSE Ret(r.I, res.v)
           [] expr[1] = "ID" -> variables_get(I, expr[2])
           [] expr[1] = "NUMBER" ->
                IF IntOk(expr[2]) THEN Ret(I, IntV(IntOf(expr[2])))
                ELSE Ret(Raise(I, "ValueError"), None)
           [] expr[1] = "BOOL" -> Ret(I, BoolV(expr[2] = <<"T", "r", "u", "e">>))
           [] expr[1] = "CHAR" -> Ret(I, StrV(strip(expr[2], "\"")))
           [] OTHER -> Ret(I, TupleV(expr))

execute_function_call(I, expr) ==
    LET func_name == expr[2]
        args == expr[3]
    IN  IF func_name \in {<<"m", "i", "n">>, <<"m", "a", "x">>}
        THEN IF Len(args) = 0 THEN Ret(Raise(I, "IndexError"), None)
             ELSE LET a == Call("evaluate_expression", I, <<args[1]>>)
                      b == Call("evaluate_expression", a.I, <<args[2]>>)
                      res == IF func_name = <<"m", "i", "n">> THEN Min(a.v, b.v)
                             ELSE Max(a.v, b.v)
                  IN  IF a.I.err # "" THEN Ret(a.I, None)
                      ELSE IF Len(args) = 1 THEN Ret(Raise(a.I, "IndexError"), None)
                      ELSE IF b.I.err # "" THEN Ret(b.I, None)
                      ELSE IF res.err # "" THEN Ret(Raise(b.I, res.err), None)
                      ELSE Ret(b.I, res.v)
        ELSE Ret(Raise(I, "Unmodelled"), None)

execute_class_instantiation(I, statement) ==
    LET class_name == statement[2]
        a == Call("eval_args", I, <<statement[3]>>)
    IN  IF a.I.err # "" THEN Ret(a.I, None)
        ELSE IF class_name = <<"S", "t", "r", "i", "n", "g", "B", "e", "a", "n", "s">>
        THEN IF Len(a.v) > 1 THEN Ret(Raise(a.I, "TypeError"), None)
             ELSE Ret([a.I EXCEPT !.heap = Append(@,
                          StringBeans(IF a.v = <<>> THEN StrV(<<>>) ELSE a.v[1]))],
                      RefV(Len(a.I.heap) + 1))
        ELSE Ret(Raise(a.I, "Unmodelled"), None)

execute_method_call(I, statement) ==
    LET obj_name == statement[2]
        method_name == statement[3]
        objv == IF obj_name \in DOMAIN I.variables THEN I.variables[obj_name] ELSE None
        found == method_lookup(I, objv, method_name)
        a == Call("eval_args", I, <<statement[4]>>)
        m == call_method(a.I.heap[objv[2]], method_name, a.v)
        called == [a.I EXCEPT !.heap[objv[2]] = m.obj]
    IN  IF I.err # "" THEN Ret(I, None)
        ELSE IF objv[1] = "none" THEN Ret(Raise(I, "NameError"), None)
        ELSE IF found \in {"AttributeError", "Unmodelled"} THEN Ret(Raise(I, found), None)
        ELSE IF a.I.err # "" THEN Ret(a.I, None)
        ELSE IF found = "notcallable" THEN Ret(Raise(a.I, "TypeError"), None)
        ELSE IF m.err # "" THEN Ret(Raise(called, m.err), None)
        ELSE IF called.current_statement[1] = "ASSIGN"
        THEN Ret(Log([called EXCEPT !.variables = Put(@, called.current_statement[2], m.v)],
                     Ev("write", I.depth, called.current_statement, statement)),
                 m.v)
        ELSE Ret(called, m.v)

execute_assignment(I, statement) ==
    LET var_name == statement[2]
        expr == statement[3]
        r == IF expr[1] = "CLASS_INST" THEN Call("execute_class_instantiation", I, <<expr>>)
             ELSE IF expr[1] = "ID"
             THEN IF expr[2] \in DOMAIN I.variables
                  THEN Ret(I, I.variables[expr[2]])
                  ELSE Ret(Raise(I, "NameError"), None)
             ELSE Call("evaluate_expression", I, <<expr>>)
    IN  IF r.I.err # "" THEN r.I ELSE assign_value(r.I, var_name, r.v)

execute_statement(I, statement) ==
    IF I.err # "" THEN Ret(I, None)
    ELSE LET statement_type == statement[1]
             J == Log([I EXCEPT !.current_statement = statement],
                      Ev("exec", I.depth, statement_type, Target(statement)))
         IN  CASE statement_type = "ASSIGN" -> Ret(Call("execute_assignment", J, <<statement>>), None)
               [] statement_type = "IF_ELSE" -> Ret(Call("execute_if_else", J, <<statement>>).I, None)
               [] statement_type = "WHILE" -> Ret(Call("execute_while", J, <<statement>>), None)
               [] statement_type = "FOR" -> Ret(Call("execute_for", J, <<statement>>), None)
               [] statement_type = "METHOD_CALL" -> Call("execute_method_call", J, <<statement>>)
               [] statement_type = "CLASS_INST" -> Call("execute_class_instantiation", J, <<statement>>)
               [] statement_type = "ID" ->
                    IF statement[2] \notin DOMAIN J.variables
                    THEN Ret(Raise(J, "NameError"), None)
                    ELSE Ret(J, J.variables[statement[2]])
               [] statement_type = "BREAK" -> Ret(J, BREAK)
               [] statement_type = "CONTINUE" -> Ret(J, CONTINUE)
               [] OTHER -> Ret(J, None)

\* for stmt in body (from the k-th on), lines 621-627 and 629-635; assigned
\* is if_variables or else_variables.  Returns [I, v, assigned]; v is the
\* signal returned early, or None.
run_branch(I, body, k, assigned) ==
    IF I.err # "" \/ k > Len(body) THEN [I |-> I, v |-> None, assigned |-> assigned]
    ELSE LET stmt == body[k]
             now == IF stmt[1] = "ASSIGN" THEN assigned \cup {stmt[2]} ELSE assigned
             r == Call("execute_statement", I, <<stmt>>)
         IN  IF r.I.err # "" THEN [I |-> r.I, v |-> None, assigned |-> now]
             ELSE IF PyEq(r.v, BREAK) \/ PyEq(r.v, CONTINUE)
             THEN [I |-> r.I, v |-> r.v, assigned |-> now]
             ELSE run_branch(r.I, body, k + 1, now)

execute_if_else(I, statement) ==
    LET condition == statement[2]
        if_body == statement[3]
        else_body == IF statement[1] = "IF" THEN <<>> ELSE statement[4]
        c == Call("evaluate_expression", I, <<condition>>)
        taken == Truthy(c.v)
        r == run_branch(Log(c.I, Ev("branch", I.depth, IF taken THEN "if" ELSE "else", <<>>)),
                        IF taken THEN if_body ELSE else_body, 1, {})
        if_variables == IF taken THEN r.assigned ELSE {}
        else_variables == IF taken THEN {} ELSE r.assigned
        gone1 == {n \in if_variables :
                     ~InStatement(n, r.I.current_statement) /\ n \notin else_variables}
        gone2 == {n \in else_variables :
                     ~InStatement(n, r.I.current_statement) /\ n \notin if_variables}
    IN  IF c.I.err # "" THEN Ret(c.I, None)
        ELSE IF r.I.err # "" \/ r.v # None THEN Ret(r.I, r.v)
        ELSE Ret(del_all(del_all(r.I, gone1), gone2), None)

\* for stmt in body (from the k-th on) of a loop of the given kind; lv is
\* loop_variables.  Returns [I, lv, sig]: sig is "BREAK" (should_break),
\* "CONTINUE" (should_continue) or "NONE".
loop_body(I, body, k, lv, kind) ==
    IF I.err # "" \/ k > Len(body) THEN [I |-> I, lv |-> lv, sig |-> "NONE"]
    ELSE LET stmt == body[k]
             J == Log(I, Ev("body", I.depth, stmt[1], Target(stmt)))
             d == body_dispatch(kind, stmt)
             now == IF d = "ASSIGN" /\ stmt[2] \notin DOMAIN I.variables
                    THEN lv \cup {stmt[2]} ELSE lv
             r == IF d = "IF" THEN Call("execute_if_else", J, <<stmt>>) ELSE Call("execute_statement", J, <<stmt>>)
         IN  CASE d = "BREAK" ->
                    [I |-> Log(J, Ev("break", I.depth, kind, <<>>)), lv |-> lv, sig |-> "BREAK"]
               [] d = "CONTINUE" ->
                    [I |-> Log(J, Ev("continue", I.depth, kind, <<>>)), lv |-> lv,
                     sig |-> "CONTINUE"]
               [] d = "SKIP" -> loop_body(J, body, k + 1, lv, kind)
               [] OTHER ->
                    IF r.I.err # "" THEN [I |-> r.I, lv |-> now, sig |-> "NONE"]
                    ELSE IF PyEq(r.v, BREAK)
                    THEN [I |-> Log(r.I, Ev("break", I.depth, kind, <<>>)), lv |-> now,
                          sig |-> "BREAK"]
                    ELSE IF PyEq(r.v, CONTINUE)
                    THEN [I |-> Log(r.I, Ev("continue", I.depth, kind, <<>>)), lv |-> now,
                          sig |-> "CONTINUE"]
                    ELSE loop_body(r.I, body, k + 1, now, kind)

\* while self.evaluate_expression(condition): ... (lines 662-698)
while_loop(I, condition, body, lv) ==
    IF I.err # "" THEN [I |-> I, lv |-> lv]
    ELSE IF I.fuel = 0 THEN [I |-> Raise(I, "Fuel"), lv |-> lv]
    ELSE LET c == Call("evaluate_expression", 
                      Log([I EXCEPT !.fuel = @ - 1], Ev("cond", I.depth, "WHILE", <<>>)), <<condition>>)
             b == loop_body(c.I, body, 1, lv, "WHILE")
         IN  IF c.I.err # "" THEN [I |-> c.I, lv |-> lv]
             ELSE IF ~Truthy(c.v)
             THEN [I |-> Log(c.I, Ev("exit", I.depth, "WHILE", <<>>)), lv |-> lv]
             ELSE IF b.I.err # "" THEN [I |-> b.I, lv |-> b.lv]
             ELSE IF b.sig = "BREAK"
             THEN [I |-> Log(b.I, Ev("exit", I.depth, "WHILE", <<>>)), lv |-> b.lv]
             ELSE while_loop(b.I, condition, body, b.lv)

execute_while(I, statement) ==
    LET r == while_loop([I EXCEPT !.depth = @ + 1], statement[2], statement[3], {})
        J == [r.I EXCEPT !.depth = @ - 1]
    IN  IF J.err # "" THEN J
        ELSE [J EXCEPT !.variables = Restrict(@, DOMAIN @ \ r.lv)]

\* while self.evaluate_expression(condition): ... (lines 724-763)
for_loop(I, condition, increment, body, lv) ==
    IF I.err # "" THEN [I |-> I, lv |-> lv]
    ELSE IF I.fuel = 0 THEN [I |-> Raise(I, "Fuel"), lv |-> lv]
    ELSE LET c == Call("evaluate_expression", 
                      Log([I EXCEPT !.fuel = @ - 1], Ev("cond", I.depth, "FOR", <<>>)), <<condition>>)
             b == loop_body(c.I, body, 1, lv, "FOR")
             next == for_after_body(b.sig)
             i == Call("execute_statement", Log(b.I, Ev("incr", I.depth, "FOR", <<>>)), <<increment>>)
         IN  IF c.I.err # "" THEN [I |-> c.I, lv |-> lv]
             ELSE IF ~Truthy(c.v)
             THEN [I |-> Log(c.I, Ev("exit", I.depth, "FOR", <<>>)), lv |-> lv]
             ELSE IF b.I.err # "" THEN [I |-> b.I, lv |-> b.lv]
             ELSE IF next = "exit"
             THEN [I |-> Log(b.I, Ev("exit", I.depth, "FOR", <<>>)), lv |-> b.lv]
             ELSE IF next = "incr" THEN for_loop(i.I, condition, increment, body, b.lv)
             ELSE for_loop(b.I, condition, increment, body, b.lv)

execute_for(I, statement) ==
    LET init == statement[2]
        loop_counter == init[2]
        loop_counter_exists == loop_counter \in DOMAIN I.variables
        started == Call("execute_statement", I, <<init>>).I
        r == for_loop([started EXCEPT !.depth = @ + 1],
                      statement[3], statement[4], statement[5], {})
        J == del_all([r.I EXCEPT !.depth = @ - 1], r.lv)
    IN  IF r.I.err # "" THEN [r.I EXCEPT !.depth = @ - 1]
        ELSE IF J.err # "" \/ loop_counter_exists THEN J
        ELSE del_all(J, {loop_counter})

\* the operations that call one another, by name
Call(f, I, args) ==
    CASE f = "evaluate_expression" -> evaluate_expression(I, args[1])
      [] f = "eval_args" -> eval_args(I, args[1])
      [] f = "execute_method_call" -> execute_method_call(I, args[1])
      [] f = "execute_function_call" -> execute_function_call(I, args[1])
      [] f = "execute_class_instantiation" -> execute_class_instantiation(I, args[1])
      [] f = "execute_statement" -> execute_statement(I, args[1])
      [] f = "execute_assignment" -> execute_assignment(I, args[1])
      [] f = "execute_if_else" -> execute_if_else(I, args[1])
      [] f = "execute_while" -> execute_while(I, args[1])
      [] f = "execute_for" -> execute_for(I, args[1])

\* interpret(ast): each statement in order, the result ignored
RECURSIVE interpret(_, _)
interpret(I, statements) ==
    IF statements = <<>> \/ I.err # "" THEN I
    ELSE interpret(Call("execute_statement", [I EXCEPT !.fuel = MaxIter], <<statements[1]>>).I,
                   Tail(statements))

\* Interpreter.__init__
EmptyMap == [n \in {} |-> None]
NewInterpreter ==
    [variables |-> EmptyMap, Dict |-> EmptyMap, heap |-> <<>>, current_statement |-> None,
     trace |-> <<>>, err |-> "", fuel |-> MaxIter, depth |-> 0]


(***************************************************************************)
(* The programs the interpreter is run on: ASTs the parser builds, over    *)
(* the names x, y, z, i, a, b.                                             *)
(***************************************************************************)
nx == <<"x">>
ny == <<"y">>
nz == <<"z">>
ni == <<"i">>
na == <<"a">>
nb == <<"b">>

Id(n) == <<"ID", n>>
Number(d) == <<"NUMBER", <<d>>>>
Char(c) == <<"CHAR", <<c, "\"">>>>        \* the lexer keeps the closing quote
Bin(op, l, r) == <<op, l, r>>
Assign(n, e) == <<"ASSIGN", n, e>>
MethodCall(o, m, args) == <<"METHOD_CALL", o, m, args>>
NewStringBeans(c) == <<"CLASS_INST", <<"S", "t", "r", "i", "n", "g", "B", "e", "a", "n", "s">>,
                       <<Char(c)>>>>

SeqsUpTo(S, n) == UNION {[1..k -> S] : k \in 0..n}

Atoms == {Assign(nx, Bin("+", Id(nx), Number("1"))),
          Assign(ny, Number("1")),
          Assign(ni, Number("5"))}
Signals == {<<"BREAK">>, <<"CONTINUE">>}
Branches == SeqsUpTo(Atoms \cup Signals, 2)
IfCond == Bin("<", Id(nx), Number("1"))
Ifs == {<<"IF", IfCond, b>> : b \in Branches \ {<<>>}}
          \cup {<<"IF_ELSE", IfCond, b, e>> :
                    b \in Branches, e \in {<<>>, <<Assign(ny, Number("1"))>>}}
Bodies == {pre \o <<mid>> \o post :
              pre \in {<<>>, <<Assign(ny, Number("1"))>>},
              mid \in Ifs \cup Signals \cup {<<"COMMENT", <<"c", "\"">>>>},
              post \in {<<>>, <<Assign(nx, Bin("+", Id(nx), Number("1")))>>, <<<<"BREAK">>>>}}
Loops == {<<"WHILE", Bin("<", Id(nx), Number("2")), body>> : body \in Bodies}
            \cup {<<"FOR", Assign(ni, Number("0")), Bin("<", Id(ni), Number("2")),
                    Assign(ni, Bin("+", Id(ni), Number("1"))), body>> : body \in Bodies}
Setups == {<<Assign(nx, Number("0"))>>,
           <<Assign(nx, Number("1"))>>,
           <<Assign(nx, Number("0")), Assign(ni, Number("7"))>>,
           <<Assign(nx, Number("1")), Assign(ny, Number("9"))>>}
Tails == {<<>>, <<Assign(nz, Id(nx))>>}
ControlPrograms == {s \o <<m>> \o t : s \in Setups, m \in Loops \cup Ifs \cup Signals,
                                      t \in Tails}

StringStatements == {Assign(nb, Id(na)),
                     Assign(na, Id(nb)),
                     MethodCall(na, <<"C", "o", "n", "j", "o", "i", "n">>, <<Char("y")>>),
                     MethodCall(nb, <<"C", "o", "n", "j", "o", "i", "n">>, <<Char("z")>>),
                     MethodCall(na, <<"R", "e", "p", "l", "a", "c", "e">>,
                                <<Char("x"), Char("w")>>),
                     Assign(nz, MethodCall(nb, <<"R", "e", "p", "l", "a", "c", "e">>,
                                           <<Char("x"), Char("v")>>))}
StringPrograms == {<<Assign(na, NewStringBeans("x"))>> \o p :
                      p \in SeqsUpTo(StringStatements, MaxStatements)}

\* statements that read names: an identifier statement, an assignment from
\* an identifier, identifiers as operands
NameStatements == {Id(ny),
                   Assign(nz, Id(ny)),
                   Assign(ny, Bin("+", Id(nx), Number("1"))),
                   Assign(nz, Bin("-", Number("5"), Id(ny))),
                   Assign(nx, Number("1"))}
NamePrograms == SeqsUpTo(NameStatements, MaxStatements) \ {<<>>}

\* x = 5~ y = 3~ if (x > y) { z = x + y~ } else { z = x - y~ }   (code2 of
\* the driver), with other values of x, and with z bound before
BranchPrograms ==
    {<<Assign(nx, Number(d)), Assign(ny, Number("3"))>> \o pre
        \o <<<<"IF_ELSE", Bin(">", Id(nx), Id(ny)),
                <<Assign(nz, Bin("+", Id(nx), Id(ny)))>>,
                <<Assign(nz, Bin("-", Id(nx), Id(ny)))>>>>>> \o post :
        d \in {"5", "3", "1"},
        pre \in {<<>>, <<Assign(nz, Number("0"))>>},
        post \in {<<>>, <<Assign(ni, Id(nz))>>}}

\* z = l == r~ and z = l != r~ for numbers and string literals l and r,
\* alone and after a = 1~
ComparePrograms ==
    {pre \o <<Assign(nz, Bin(op, l, r))>> :
        pre \in {<<>>, <<Assign(na, Number("1"))>>},
        op \in {"==", "!="},
        l \in {Number("1"), Number("2"), Char("a")},
        r \in {Number("1"), Number("2"), Char("a")}}

\* a loop whose body is an if/else with a second if/else in one of its
\* branches, a break or continue in a branch of the second, and x = x + 1~
\* after it
InnerIfs == {<<"IF_ELSE", IfCond, <<s>>, <<>>>> : s \in Signals}
               \cup {<<"IF_ELSE", IfCond, <<>>, <<s>>>> : s \in Signals}
               \cup {<<"IF", IfCond, <<s>>>> : s \in Signals}
NestedIfs == {<<"IF_ELSE", IfCond, <<inner>>, <<>>>> : inner \in InnerIfs}
                \cup {<<"IF_ELSE", IfCond, <<>>, <<inner>>>> : inner \in InnerIfs}
                \cup {<<"IF", IfCond, <<inner>>>> : inner \in InnerIfs}
NestedBodies == {<<n, Assign(nx, Bin("+", Id(nx), Number("1")))>> : n \in NestedIfs}
NestedLoops == {<<"WHILE", Bin("<", Id(nx), Number("2")), body>> : body \in NestedBodies}
                  \cup {<<"FOR", Assign(ni, Number("0")), Bin("<", Id(ni), Number("2")),
                          Assign(ni, Bin("+", Id(ni), Number("1"))), body>> :
                            body \in NestedBodies}
NestedPrograms == {<<Assign(nx, Number(d)), loop>> : d \in {"0", "1"}, loop \in NestedLoops}

\* method calls as the condition of a while, a for and an if/else (at top
\* level and in a loop body), as a statement, as the right-hand side of an
\* assignment and as an argument, after a = StringBeans("x")~ with y or i
\* bound or not
AllLower(o) == MethodCall(o, <<"a", "l", "l", "L", "o", "w", "e", "r">>, <<>>)
ConjoinX(o) == MethodCall(o, <<"C", "o", "n", "j", "o", "i", "n">>, <<Char("X")>>)
MethodStatements ==
    {<<"WHILE", AllLower(na), <<ConjoinX(na), Assign(ny, Number("5"))>>>>,
     <<"WHILE", AllLower(na), <<Assign(ny, Number("5")), ConjoinX(na)>>>>,
     <<"WHILE", AllLower(na), <<<<"BREAK">>>>>>,
     <<"FOR", Assign(ni, Number("0")), AllLower(na),
       Assign(ni, Bin("+", Id(ni), Number("1"))), <<<<"BREAK">>>>>>,
     <<"FOR", Assign(ni, Number("0")), Bin("<", Id(ni), Number("1")),
       Assign(ni, Bin("+", Id(ni), Number("1"))),
       <<<<"IF_ELSE", AllLower(na), <<>>, <<>>>>>>>>,
     <<"WHILE", Bin("<", Id(ny), Number("1")),
       <<Assign(ny, Bin("+", Id(ny), Number("1"))), <<"IF_ELSE", AllLower(na), <<>>, <<>>>>>>>>,
     <<"IF_ELSE", AllLower(na), <<>>, <<>>>>,
     <<"IF_ELSE", AllLower(na), <<Assign(ny, Number("5"))>>, <<Assign(ny, Number("1"))>>>>,
     AllLower(na),
     Assign(nz, AllLower(na)),
     MethodCall(na, <<"C", "o", "n", "j", "o", "i", "n">>,
                <<MethodCall(na, <<"R", "e", "p", "l", "a", "c", "e">>,
                             <<Char("x"), Char("w")>>)>>),
     Assign(nz, MethodCall(na, <<"R", "e", "p", "l", "a", "c", "e">>,
                           <<Char("x"), MethodCall(na, <<"R", "e", "p", "l", "a", "c", "e">>,
                                                   <<Char("x"), Char("w")>>)>>))}
MethodPrograms ==
    {<<Assign(na, NewStringBeans("x"))>> \o pre \o <<m>> :
        pre \in {<<>>, <<Assign(ny, Number("0"))>>, <<Assign(ni, Number("7"))>>},
        m \in MethodStatements}

\* z = l == r~ and z = l != r~ for booleans l and r: the literals True and
\* False and the results of comparisons
Bool(b) == <<"BOOL", IF b THEN <<"T", "r", "u", "e">> ELSE <<"F", "a", "l", "s", "e">>>>
BoolOperands == {Bool(TRUE), Bool(FALSE), Bin("<", Number("1"), Number("2")),
                 Bin(">", Number("1"), Number("2"))}
BoolPrograms == {<<Assign(nz, Bin(op, l, r))>> :
                    op \in {"==", "!="}, l \in BoolOperands, r \in BoolOperands}

Programs == ControlPrograms \cup StringPrograms \cup NamePrograms \cup BranchPrograms
                \cup ComparePrograms \cup NestedPrograms \cup MethodPrograms
                \cup BoolPrograms

(***************************************************************************)
(* interpret(ast): one action per top-level statement, by its kind.        *)
(***************************************************************************)
Idle == "idle"

InterpInit ==
    /\ program \in Programs
    /\ pc = 1
    /\ variables = NewInterpreter.variables
    /\ Dict = NewInterpreter.Dict
    /\ heap = NewInterpreter.heap
    /\ current_statement = NewInterpreter.current_statement
    /\ trace = NewInterpreter.trace
    /\ status = "run"

InterpIdle ==
    /\ program = <<>>
    /\ pc = 0
    /\ variables = EmptyMap
    /\ Dict = EmptyMap
    /\ heap = <<>>
    /\ current_statement = None
    /\ trace = <<>>
    /\ status = Idle

LexIdle == code = <<>> /\ position = 0 /\ tokens = <<>> /\ lexState = Idle /\ lastRun = None
ParseIdle == ptokens = <<>> /\ pposition = 0 /\ ast = <<>> /\ parseState = Idle

\* the interpreter object as the next top-level statement finds it
Self ==
    [variables |-> variables, Dict |-> Dict, heap |-> heap,
     current_statement |-> current_statement, trace |-> trace,
     err |-> "", fuel |-> MaxIter, depth |-> 0]

\* interpret is at a statement of one of these kinds
At(kinds) == status = "run" /\ pc <= Len(program) /\ program[pc][1] \in kinds

\* the interpreter object I is what the statement left behind
Become(I) ==
    /\ variables' = I.variables
    /\ Dict' = I.Dict
    /\ heap' = I.heap
    /\ current_statement' = I.current_statement
    /\ trace' = I.trace
    /\ status' = IF I.err = "" THEN "run" ELSE I.err
    /\ pc' = IF I.err = "" THEN pc + 1 ELSE pc

\* self.execute_statement(statement) for the statement interpret is at
Execute == Become(Call("execute_statement", Self, <<program[pc]>>).I)

InterpretAssignment ==
    /\ At({"ASSIGN"})
    /\ Execute
    /\ UNCHANGED <<program, lexVars, parseVars>>

InterpretIfElse ==
    /\ At({"IF_ELSE"})
    /\ Execute
    /\ UNCHANGED <<program, lexVars, parseVars>>

InterpretWhile ==
    /\ At({"WHILE"})
    /\ Execute
    /\ UNCHANGED <<program, lexVars, parseVars>>

InterpretFor ==
    /\ At({"FOR"})
    /\ Execute
    /\ UNCHANGED <<program, lexVars, parseVars>>

InterpretMethodCall ==
    /\ At({"METHOD_CALL"})
    /\ Execute
    /\ UNCHANGED <<program, lexVars, parseVars>>

\* a statement execute_statement has no branch for, or only returns from
InterpretOther ==
    /\ At({"IF", "BREAK", "CONTINUE", "COMMENT", "ID", "CLASS_INST",
           "NUMBER", "BOOL", "CHAR", "CALL"} \cup BinaryOps)
    /\ Execute
    /\ UNCHANGED <<program, lexVars, parseVars>>

InterpretEnd ==
    /\ status = "run"
    /\ pc > Len(program)
    /\ status' = "done"
    /\ UNCHANGED <<program, pc, variables, Dict, heap, current_statement, trace,
                   lexVars, parseVars>>

Init == InterpInit /\ LexIdle /\ ParseIdle
Next ==
    \/ InterpretAssignment
    \/ InterpretIfElse
    \/ InterpretWhile
    \/ InterpretFor
    \/ InterpretMethodCall
    \/ InterpretOther
    \/ InterpretEnd
Spec == Init /\ [][Next]_vars

\* no run leaves the part of Python this model covers
UnmodelledUnreached == status # "Unmodelled"


(***************************************************************************)
(* The Lexer.  tokenize is a loop; each pass reads one character with      *)
(* get_next_char and handles it.  One action per kind of pass.  lexState   *)
(* is "run", "done" (tokenize returned tokens) or the exception raised.    *)
(* A character is a one-character string; NoChar stands for the None that  *)
(* get_next_char returns at the end of the code.  position is 0-based, as  *)
(* in the code: code[position + 1] here is self.code[self.position].       *)
(***************************************************************************)
NoChar == ""

get_next_char(c, p) ==
    IF p >= Len(c) THEN [char |-> NoChar, position |-> p]
    ELSE [char |-> c[p + 1], position |-> p + 1]

\* while (char := self.get_next_char()) is not None and (...): continue
\* for an identifier (lines 73-74) or a number (lines 98-99); the position
\* the loop leaves
RECURSIVE scan(_, _, _)
scan(c, p, rule) ==
    LET g == get_next_char(c, p)
        more == /\ g.char # NoChar
                /\ IF rule = "ident" THEN isalnum(g.char) \/ g.char = "_"
                   ELSE isdigit(g.char) \/ g.char = "."
    IN  IF more THEN scan(c, g.position, rule) ELSE g.position

\* while (char := self.get_next_char()) != '"' (lines 104-106): the position
\* after the closing quote, or -1 when the code ends first
RECURSIVE scan_string(_, _)
scan_string(c, p) ==
    LET g == get_next_char(c, p)
    IN  IF g.char = "\"" THEN g.position
        ELSE IF g.char = NoChar THEN 0 - 1
        ELSE scan_string(c, g.position)

\* lines 77-94: the token of an identifier or keyword
ident_token(value) ==
    CASE value \in {<<"s", "q", "u", "a", "r", "e", "R", "o", "o", "t">>,
                    <<"m", "i", "n">>, <<"m", "a", "x">>} -> <<"FUNC", value>>
      [] value \in {<<"T", "r", "u", "e">>, <<"F", "a", "l", "s", "e">>} -> <<"BOOL", value>>
      [] value = <<"i", "f">> -> <<"IF", value>>
      [] value = <<"e", "l", "s", "e">> -> <<"ELSE", value>>
      [] value \in {<<"w", "h", "i", "l", "e">>, <<"f", "o", "r">>} -> <<"LOOP", value>>
      [] value = <<"b", "r", "e", "a", "k">> -> <<"Terminate", value>>
      [] value = <<"c", "o", "n", "t", "i", "n", "u", "e">> -> <<"Continue", value>>
      [] value \in {<<"S", "h", "m", "u", "p", "l", "e">>,
                    <<"S", "t", "r", "i", "n", "g", "B", "e", "a", "n", "s">>,
                    <<"A", "r", "r", "a", "y", "s">>} -> <<"Class", value>>
      [] OTHER -> <<"ID", value>>

\* '+-*/=<>!&|(){}^;,~'
Symbols == {"+", "-", "*", "/", "=", "<", ">", "!", "&", "|", "(", ")", "{", "}",
            "^", ";", ",", "~"}

\* lines 95-96: the character starts a number
starts_number(c, g) ==
    \/ isdigit(g.char)
    \/ /\ g.char = "-"
       /\ g.position < Len(c)
       /\ isdigit(c[g.position + 1])

\* lines 109-145: [err, token, position] for a character of Symbols read by g
symbol_token(c, g) ==
    LET n == get_next_char(c, g.position)
        one(t) == [err |-> "", token |-> t, position |-> g.position]
        two(t) == [err |-> "", token |-> t, position |-> n.position]
        bad == [err |-> "RuntimeError", token |-> None, position |-> n.position]
    IN  CASE g.char = "^" -> one(<<"OP", <<"^">>>>)
          [] g.char = "=" ->
                IF n.char = "=" THEN two(<<"OP", <<"=", "=">>>>)
                ELSE [err |-> "", token |-> <<"ASSIGN", <<"=">>>>,
                      position |-> n.position - 1]
          [] g.char = "!" -> IF n.char = "=" THEN two(<<"OP", <<"!", "=">>>>) ELSE bad
          [] g.char = "&" -> IF n.char = "&" THEN two(<<"OP", <<"&", "&">>>>) ELSE bad
          [] g.char = "|" -> IF n.char = "|" THEN two(<<"OP", <<"|", "|">>>>) ELSE bad
          [] g.char \in {"+", "-", "*", "/", "<", ">", "(", ")", "{", "}"} ->
                one(<<"OP", <<g.char>>>>)
          [] g.char = "," -> one(<<"COMMA", <<",">>>>)
          [] g.char = "~" -> one(<<"END", <<"~">>>>)
          [] g.char = ";" -> one(<<"SEMICOLON", <<";">>>>)

MaxLexed == 6       \* tokens after which the model stops following tokenize

\* the character the pass reads, and the position after reading it
Read == get_next_char(code, position)
Lexing == lexState = "run" /\ Len(tokens) < MaxLexed

\* line 69: whitespace is skipped
LexSpace ==
    /\ Lexing
    /\ Read.char # NoChar /\ isspace(Read.char)
    /\ position' = Read.position
    /\ UNCHANGED <<code, tokens, lexState, lastRun, parseVars, interpVars>>

\* lines 71-94: an identifier or a keyword
LexIdent ==
    /\ Lexing
    /\ Read.char # NoChar /\ isalpha(Read.char)
    /\ position' = scan(code, Read.position, "ident") - 1
    /\ tokens' = Append(tokens, ident_token(Slice(code, Read.position - 1, position')))
    /\ UNCHANGED <<code, lexState, lastRun, parseVars, interpVars>>

\* lines 95-101: a number
LexNumber ==
    /\ Lexing
    /\ Read.char # NoChar /\ ~isspace(Read.char) /\ ~isalpha(Read.char)
    /\ starts_number(code, Read)
    /\ position' = scan(code, Read.position, "number") - 1
    /\ tokens' = Append(tokens, <<"NUMBER", Slice(code, Read.position - 1, position')>>)
    /\ UNCHANGED <<code, lexState, lastRun, parseVars, interpVars>>

\* lines 102-107: a string literal
LexString ==
    /\ Lexing
    /\ Read.char = "\""
    /\ IF scan_string(code, Read.position) < 0
       THEN /\ lexState' = "RuntimeError"
            /\ position' = Len(code)
            /\ UNCHANGED tokens
       ELSE /\ position' = scan_string(code, Read.position)
            /\ tokens' = Append(tokens, <<"CHAR", Slice(code, Read.position, position')>>)
            /\ UNCHANGED lexState
    /\ UNCHANGED <<code, lastRun, parseVars, interpVars>>

\* lines 108-145: an operator or a symbol
LexSymbol ==
    /\ Lexing
    /\ Read.char \in Symbols
    /\ ~starts_number(code, Read)
    /\ position' = symbol_token(code, Read).position
    /\ IF symbol_token(code, Read).err # ""
       THEN lexState' = symbol_token(code, Read).err /\ UNCHANGED tokens
       ELSE tokens' = Append(tokens, symbol_token(code, Read).token) /\ UNCHANGED lexState
    /\ UNCHANGED <<code, lastRun, parseVars, interpVars>>

\* lines 146-147: the dot
LexDot ==
    /\ Lexing
    /\ Read.char = "."
    /\ position' = Read.position
    /\ tokens' = Append(tokens, <<"DOT", <<".">>>>)
    /\ UNCHANGED <<code, lexState, lastRun, parseVars, interpVars>>

\* lines 148-149: any other character
LexUnexpected ==
    /\ Lexing
    /\ Read.char # NoChar
    /\ ~isspace(Read.char) /\ ~isalpha(Read.char) /\ ~isdigit(Read.char)
    /\ Read.char \notin Symbols \cup {"\"", "."}
    /\ position' = Read.position
    /\ lexState' = "RuntimeError"
    /\ UNCHANGED <<code, tokens, lastRun, parseVars, interpVars>>

\* lines 68 and 150: get_next_char returned None, tokenize returns tokens
LexReturn ==
    /\ lexState = "run"
    /\ Read.char = NoChar
    /\ lexState' = "done"
    /\ UNCHANGED <<code, position, tokens, lastRun, parseVars, interpVars>>

\* the source texts tokenize is run on
Alphabet == {"a", "1", "-", "=", "~", " ", "\"", ".", "#"}
Sources == SeqsUpTo(Alphabet, MaxLen)

LexInit ==
    /\ code \in Sources
    /\ position = 0
    /\ tokens = <<>>
    /\ lexState = "run"
    /\ lastRun = None

\* Lexer(code): the fields of a new Lexer (lines 41-42)
Stale_Lexer(c) == [code |-> c, position |-> position]
Lexer(c) == [code |-> c, position |-> 0]

\* tokenize has ended; a new Lexer is made for the same source text and its
\* tokenize is called (line 67: tokens = []).  lastRun keeps how the run
\* before ended: its tokens, its outcome and the position it stopped at.
LexAgain ==
    /\ lexState \notin {"run", Idle}
    /\ lastRun = None
    /\ lastRun' = <<tokens, lexState, position>>
    /\ code' = Lexer(code).code
    /\ position' = Lexer(code).position
    /\ tokens' = <<>>
    /\ lexState' = "run"
    /\ UNCHANGED <<parseVars, interpVars>>

InitLexer == LexInit /\ ParseIdle /\ InterpIdle
NextLexer ==
    \/ LexSpace
    \/ LexIdent
    \/ LexNumber
    \/ LexString
    \/ LexSymbol
    \/ LexDot
    \/ LexUnexpected
    \/ LexReturn
    \/ LexAgain
SpecLexer == InitLexer /\ [][NextLexer]_vars


(***************************************************************************)
(* The Parser.  P is the parser object: tokens, position (0-based) and err *)
(* ("" or the exception that is propagating).  An operation returns        *)
(* [P, node]: the parser after it and the value it returns.  NoToken is    *)
(* the None that current_token returns at the end of the tokens; a value   *)
(* read from None ("None[0]") raises TypeError.                            *)
(***************************************************************************)
NoToken == None

PRet(P, node) == [P |-> P, node |-> node]
PRaise(P, e) == [P EXCEPT !.err = e]

current_token(P) ==
    IF P.position < Len(P.tokens) THEN P.tokens[P.position + 1] ELSE NoToken

\* the current token is the operator or symbol with this text
AtOp(P, text) ==
    /\ current_token(P) # NoToken
    /\ current_token(P)[1] = "OP"
    /\ current_token(P)[2] = text

consume(P, expected_type) ==
    IF P.err # "" THEN PRet(P, <<>>)
    ELSE IF current_token(P) # NoToken /\ current_token(P)[1] = expected_type
    THEN PRet([P EXCEPT !.position = @ + 1], current_token(P)[2])
    ELSE PRet(PRaise(P, "RuntimeError"), <<>>)

\* lines 230-231: a terminator after break or continue is consumed if present
optional_end(P) ==
    IF P.err = "" /\ current_token(P) # NoToken
                  /\ current_token(P)[1] \in {"END", "SEMICOLON"}
    THEN [P EXCEPT !.position = @ + 1]
    ELSE P

\* lines 243-247, 250-254, 257-261, 271-275: the terminator of a statement
end_statement(P, node) ==
    IF P.err # "" THEN PRet(P, None)
    ELSE IF current_token(P) # NoToken /\ current_token(P)[1] \in {"END", "SEMICOLON"}
    THEN PRet([P EXCEPT !.position = @ + 1], node)
    ELSE PRet(PRaise(P, "RuntimeError"), None)

\* the tag of a binary node: the operator's text as one string
OpTag(text) ==
    CASE text = <<"+">> -> "+"
      [] text = <<"-">> -> "-"
      [] text = <<"*">> -> "*"
      [] text = <<"/">> -> "/"
      [] text = <<"^">> -> "^"
      [] text = <<"<">> -> "<"
      [] text = <<">">> -> ">"
      [] text = <<"=", "=">> -> "=="
      [] text = <<"!", "=">> -> "!="
      [] text = <<"&", "&">> -> "&&"
      [] text = <<"|", "|">> -> "||"

ExpressionOps == {<<"+">>, <<"-">>, <<"<">>, <<">">>, <<"=", "=">>, <<"!", "=">>,
                  <<"&", "&">>, <<"|", "|">>}
OneLayer_TermOps == {<<"*">>, <<"/">>, <<"^">>, <<"+">>, <<"-">>, <<"<">>, <<">">>,
                     <<"=", "=">>, <<"!", "=">>, <<"&", "&">>, <<"|", "|">>}
TermOps == {<<"*">>, <<"/">>, <<"^">>}

RECURSIVE PCall(_, _, _)
RECURSIVE expression_rest(_, _)
RECURSIVE term_rest(_, _)
RECURSIVE more_args(_, _, _)
RECURSIVE block(_, _)

\* line 290 and the next pass: left = (op, left, right)
expression_next(op, left, right) ==
    expression_rest(right.P, <<OpTag(op), left, right.node>>)

\* the while loop of parse_expression (lines 285-290)
expression_rest(P, left) ==
    IF P.err # "" THEN PRet(P, None)
    ELSE IF current_token(P) # NoToken /\ current_token(P)[1] = "OP"
                                       /\ current_token(P)[2] \in ExpressionOps
    THEN expression_next(current_token(P)[2], left,
                         PCall("parse_term", consume(P, "OP").P, <<>>))
    ELSE PRet(P, left)

\* line 284 and the loop: left = self.parse_term()
expression_first(left) == expression_rest(left.P, left.node)

parse_expression(P) ==
    IF P.err # "" THEN PRet(P, None)
    ELSE expression_first(PCall("parse_term", P, <<>>))

\* line 304 and the next pass: left = (op, left, right)
term_next(op, left, right) == term_rest(right.P, <<OpTag(op), left, right.node>>)

\* the while loop of parse_term (lines 301-304)
term_rest(P, left) ==
    IF P.err # "" THEN PRet(P, None)
    ELSE IF current_token(P) # NoToken /\ current_token(P)[1] = "OP"
                                       /\ current_token(P)[2] \in TermOps
    THEN term_next(current_token(P)[2], left,
                   PCall("parse_factor", consume(P, "OP").P, <<>>))
    ELSE PRet(P, left)

\* line 300 and the loop: left = self.parse_factor()
term_first(left) == term_rest(left.P, left.node)

parse_term(P) ==
    IF P.err # "" THEN PRet(P, None)
    ELSE term_first(PCall("parse_factor", P, <<>>))

\* lines 324-327: '(' expression, then any OP
parenthesized(e) == PRet(consume(e.P, "OP").P, e.node)

parse_factor(P) ==
    IF P.err # "" THEN PRet(P, None)
    ELSE IF current_token(P) = NoToken THEN PRet(PRaise(P, "TypeError"), None)
    ELSE CASE current_token(P)[1] = "NUMBER" ->
                PRet(consume(P, "NUMBER").P, <<"NUMBER", current_token(P)[2]>>)
           [] current_token(P)[1] = "BOOL" ->
                PRet(consume(P, "BOOL").P, <<"BOOL", current_token(P)[2]>>)
           [] current_token(P)[1] = "ID" -> PCall("parse_id_or_call", P, <<>>)
           [] AtOp(P, <<"(">>) ->
                parenthesized(PCall("parse_expression", consume(P, "OP").P, <<>>))
           [] current_token(P)[1] = "Class" -> PCall("parse_class_instantiation", P, <<>>)
           [] current_token(P)[1] = "CHAR" ->
                PRet(consume(P, "CHAR").P, <<"CHAR", current_token(P)[2]>>)
           [] current_token(P)[1] = "FUNC" -> PCall("parse_function_call", P, <<>>)
           [] OTHER -> PRet(PRaise(P, "RuntimeError"), None)

\* lines 345-349: after the identifier var_name is consumed
id_or_call(P, var_name) ==
    IF P.err # "" THEN PRet(P, None)
    ELSE IF current_token(P) = NoToken THEN PRet(PRaise(P, "TypeError"), None)
    ELSE IF AtOp(P, <<"(">>) THEN PCall("parse_function_call", P, <<>>)
    ELSE IF current_token(P)[1] = "DOT" THEN PCall("parse_method_call", P, <<var_name>>)
    ELSE PRet(P, <<"ID", var_name>>)

parse_id_or_call(P) == id_or_call(consume(P, "ID").P, consume(P, "ID").node)

\* args.append(self.parse_expression()) and the loop that follows
next_arg(args, e, safe) == more_args(e.P, Append(args, e.node), safe)

\* while self.current_token()[0] == 'COMMA' (lines 385-387, 403-405), or,
\* when safe, while self.current_token() and ... (lines 363-365)
more_args(P, args, safe) ==
    IF P.err # "" THEN PRet(P, args)
    ELSE IF current_token(P) = NoToken
    THEN IF safe THEN PRet(P, args) ELSE PRet(PRaise(P, "TypeError"), args)
    ELSE IF current_token(P)[1] = "COMMA"
    THEN next_arg(args, PCall("parse_expression", consume(P, "COMMA").P, <<>>), safe)
    ELSE PRet(P, args)

\* the closing consume('OP') of an argument list
close_args(m) == PRet(consume(m.P, "OP").P, m.node)

\* lines 360-366, 382-388, 400-406: the arguments and the closing OP
arguments(P, safe) ==
    IF P.err # "" THEN PRet(P, <<>>)
    ELSE IF current_token(P) = NoToken THEN PRet(PRaise(P, "TypeError"), <<>>)
    ELSE IF ~AtOp(P, <<")">>)
    THEN close_args(next_arg(<<>>, PCall("parse_expression", P, <<>>), safe))
    ELSE PRet(consume(P, "OP").P, <<>>)

\* a node of this tag and name whose last field is the arguments parsed
with_arguments(tag, name, a) == PRet(a.P, <<tag, name, a.node>>)

parse_function_call(P) ==
    with_arguments("CALL", consume(P, "FUNC").node,
                   arguments(consume(consume(P, "FUNC").P, "OP").P, TRUE))

method_node(obj_name, method_name, a) ==
    PRet(a.P, <<"METHOD_CALL", obj_name, method_name, a.node>>)

parse_method_call(P, obj_name) ==
    method_node(obj_name, consume(consume(P, "DOT").P, "ID").node,
                arguments(consume(consume(consume(P, "DOT").P, "ID").P, "OP").P, FALSE))

parse_class_instantiation(P) ==
    with_arguments("CLASS_INST", consume(P, "Class").node,
                   arguments(consume(consume(P, "Class").P, "OP").P, FALSE))

\* body.append(self.parse_statement()) and the loop that follows
block_next(body, s) == block(s.P, Append(body, s.node))

\* while self.current_token() and not '}': body.append(self.parse_statement())
\* and the consume('OP') that follows (lines 433-435, 441-443, 461-465, 497-499)
block(P, body) ==
    IF P.err # "" THEN PRet(P, body)
    ELSE IF current_token(P) # NoToken /\ ~AtOp(P, <<"}">>)
    THEN block_next(body, PCall("parse_statement", P, <<>>))
    ELSE PRet(consume(P, "OP").P, body)

if_else_node(condition, if_block, e) ==
    PRet(e.P, <<"IF_ELSE", condition, if_block, e.node>>)

\* lines 437-446: after the if body
else_part(condition, b) ==
    IF b.P.err = "" /\ current_token(b.P) # NoToken /\ current_token(b.P)[1] = "ELSE"
    THEN if_else_node(condition, b.node,
                      block(consume(consume(b.P, "ELSE").P, "OP").P, <<>>))
    ELSE PRet(b.P, <<"IF", condition, b.node>>)

\* the condition c, then ')' '{' and the body
if_body(c) == else_part(c.node, block(consume(consume(c.P, "OP").P, "OP").P, <<>>))

parse_if_statement(P) ==
    if_body(PCall("parse_expression", consume(consume(P, "IF").P, "OP").P, <<>>))

while_node(condition, b) == PRet(b.P, <<"WHILE", condition, b.node>>)
while_body(c) == while_node(c.node, block(consume(consume(c.P, "OP").P, "OP").P, <<>>))

parse_while_statement(P) ==
    while_body(PCall("parse_expression", consume(consume(P, "LOOP").P, "OP").P, <<>>))

\* lines 493-503: ')' '{', the body, and the node
for_node(init, condition, increment, b) ==
    PRet(b.P, <<"FOR", init, condition, increment, b.node>>)
for_body(init, condition, incr_var, e) ==
    for_node(init, condition, <<"ASSIGN", incr_var, e.node>>,
             block(consume(consume(e.P, "OP").P, "OP").P, <<>>))
\* lines 488-491: ';' and the increment
for_increment(init, c) ==
    for_body(init, c.node, consume(consume(c.P, "SEMICOLON").P, "ID").node,
             PCall("parse_expression",
                   consume(consume(consume(c.P, "SEMICOLON").P, "ID").P, "ASSIGN").P, <<>>))
\* lines 482-485: ';' and the condition
for_condition(init_var, e) ==
    for_increment(<<"ASSIGN", init_var, e.node>>,
                  PCall("parse_expression", consume(e.P, "SEMICOLON").P, <<>>))

parse_for_statement(P) ==
    for_condition(consume(consume(consume(P, "LOOP").P, "OP").P, "ID").node,
                  PCall("parse_expression",
                        consume(consume(consume(consume(P, "LOOP").P, "OP").P, "ID").P,
                                "ASSIGN").P, <<>>))

\* lines 242-247: the expression of an assignment and its terminator
assignment(var_name, e) == end_statement(e.P, <<"ASSIGN", var_name, e.node>>)
\* lines 249-254, 256-261, 270-275: a node and its terminator
terminated(e) == end_statement(e.P, e.node)

\* lines 240-261: after the identifier var_name is consumed
id_statement(P, var_name) ==
    IF current_token(P) = NoToken THEN PRet(PRaise(P, "TypeError"), None)
    ELSE IF current_token(P)[1] = "ASSIGN"
    THEN assignment(var_name, PCall("parse_expression", consume(P, "ASSIGN").P, <<>>))
    ELSE IF current_token(P)[1] = "DOT"
    THEN terminated(PCall("parse_method_call", P, <<var_name>>))
    ELSE terminated(PCall("parse_expression", P, <<>>))

\* called with a current token: position < tokenSize, or the loop of a block
ElseSkipped_parse_statement(P) ==
    IF P.err # "" THEN PRet(P, None)
    ELSE CASE current_token(P)[1] = "CHAR" ->
                PRet(consume(P, "CHAR").P, <<"COMMENT", current_token(P)[2]>>)
           [] current_token(P)[1] = "ELSE" ->
                PRet(consume(P, "ELSE").P, <<"COMMENT", current_token(P)[2]>>)
           [] current_token(P)[1] = "Terminate" ->
                PRet(optional_end(consume(P, "Terminate").P), <<"BREAK">>)
           [] current_token(P)[1] = "Continue" ->
                PRet(optional_end(consume(P, "Continue").P), <<"CONTINUE">>)
           [] current_token(P)[1] = "ID" ->
                id_statement(consume(P, "ID").P, consume(P, "ID").node)
           [] current_token(P)[1] = "IF" -> PCall("parse_if_statement", P, <<>>)
           [] current_token(P)[1] = "LOOP" ->
                IF current_token(P)[2] = <<"w", "h", "i", "l", "e">>
                THEN PCall("parse_while_statement", P, <<>>)
                ELSE IF current_token(P)[2] = <<"f", "o", "r">>
                THEN PCall("parse_for_statement", P, <<>>)
                ELSE PRet(P, None)
           [] OTHER -> terminated(PCall("parse_expression", P, <<>>))
parse_statement(P) ==
    IF P.err # "" THEN PRet(P, None)
    ELSE CASE current_token(P)[1] = "CHAR" ->
                PRet(consume(P, "CHAR").P, <<"COMMENT", current_token(P)[2]>>)
           [] current_token(P)[1] = "Terminate" ->
                PRet(optional_end(consume(P, "Terminate").P), <<"BREAK">>)
           [] current_token(P)[1] = "Continue" ->
                PRet(optional_end(consume(P, "Continue").P), <<"CONTINUE">>)
           [] current_token(P)[1] = "ID" ->
                id_statement(consume(P, "ID").P, consume(P, "ID").node)
           [] current_token(P)[1] = "IF" -> PCall("parse_if_statement", P, <<>>)
           [] current_token(P)[1] = "LOOP" ->
                IF current_token(P)[2] = <<"w", "h", "i", "l", "e">>
                THEN PCall("parse_while_statement", P, <<>>)
                ELSE IF current_token(P)[2] = <<"f", "o", "r">>
                THEN PCall("parse_for_statement", P, <<>>)
                ELSE PRet(P, None)
           [] OTHER -> terminated(PCall("parse_expression", P, <<>>))

\* the parsing operations that call one another, by name
PCall(f, P, args) ==
    CASE f = "parse_statement" -> parse_statement(P)
      [] f = "parse_expression" -> parse_expression(P)
      [] f = "parse_term" -> parse_term(P)
      [] f = "parse_factor" -> parse_factor(P)
      [] f = "parse_id_or_call" -> parse_id_or_call(P)
      [] f = "parse_function_call" -> parse_function_call(P)
      [] f = "parse_method_call" -> parse_method_call(P, args[1])
      [] f = "parse_class_instantiation" -> parse_class_instantiation(P)
      [] f = "parse_if_statement" -> parse_if_statement(P)
      [] f = "parse_while_statement" -> parse_while_statement(P)
      [] f = "parse_for_statement" -> parse_for_statement(P)


(***************************************************************************)
(* parse(): one action per kind of top-level statement, chosen as          *)
(* parse_statement chooses, by the current token.  parseState is "run",    *)
(* "done" (parse returned ast) or the exception raised.                    *)
(***************************************************************************)
Parser == [tokens |-> ptokens, position |-> pposition, err |-> ""]

\* parse_statement is called and the current token has one of these types
ParsingAt(types) ==
    /\ parseState = "run"
    /\ pposition < Len(ptokens)
    /\ ptokens[pposition + 1][1] \in types

\* line 211: ast.append(self.parse_statement()), r being what it returned
Appended(r) ==
    /\ pposition' = r.P.position
    /\ parseState' = IF r.P.err = "" THEN "run" ELSE r.P.err
    /\ ast' = IF r.P.err = "" THEN Append(ast, r.node) ELSE ast

ParseStatement == Appended(PCall("parse_statement", Parser, <<>>))

ParseComment ==
    /\ ParsingAt({"CHAR"})
    /\ ParseStatement
    /\ UNCHANGED <<ptokens, lexVars, interpVars>>

ParseBreak ==
    /\ ParsingAt({"Terminate"})
    /\ ParseStatement
    /\ UNCHANGED <<ptokens, lexVars, interpVars>>

ParseContinue ==
    /\ ParsingAt({"Continue"})
    /\ ParseStatement
    /\ UNCHANGED <<ptokens, lexVars, interpVars>>

\* lines 238-261: an assignment, a method call or an expression
ParseIdentifier ==
    /\ ParsingAt({"ID"})
    /\ ParseStatement
    /\ UNCHANGED <<ptokens, lexVars, interpVars>>

ParseIf ==
    /\ ParsingAt({"IF"})
    /\ ParseStatement
    /\ UNCHANGED <<ptokens, lexVars, interpVars>>

ParseLoop ==
    /\ ParsingAt({"LOOP"})
    /\ ParseStatement
    /\ UNCHANGED <<ptokens, lexVars, interpVars>>

\* lines 269-275: any other token starts an expression statement
ParseExpression ==
    /\ ParsingAt({"NUMBER", "BOOL", "OP", "ASSIGN", "END", "SEMICOLON", "COMMA", "DOT",
                  "FUNC", "Class", "ELSE"})
    /\ ParseStatement
    /\ UNCHANGED <<ptokens, lexVars, interpVars>>

\* lines 210 and 212: no token is left, parse returns ast
ParseReturn ==
    /\ parseState = "run"
    /\ pposition >= Len(ptokens)
    /\ parseState' = "done"
    /\ UNCHANGED <<ptokens, pposition, ast, lexVars, interpVars>>

\* tokens, as the lexer builds them
tID(n) == <<"ID", n>>
tNUMBER(d) == <<"NUMBER", <<d>>>>
tOP(c) == <<"OP", <<c>>>>
tASSIGN == <<"ASSIGN", <<"=">>>>
tEND == <<"END", <<"~">>>>
tSEMICOLON == <<"SEMICOLON", <<";">>>>
tCOMMA == <<"COMMA", <<",">>>>
tDOT == <<"DOT", <<".">>>>
tCHAR(c) == <<"CHAR", <<c, "\"">>>>
tIF == <<"IF", <<"i", "f">>>>
tELSE == <<"ELSE", <<"e", "l", "s", "e">>>>
tWHILE == <<"LOOP", <<"w", "h", "i", "l", "e">>>>
tFOR == <<"LOOP", <<"f", "o", "r">>>>
tBREAK == <<"Terminate", <<"b", "r", "e", "a", "k">>>>
tCONTINUE == <<"Continue", <<"c", "o", "n", "t", "i", "n", "u", "e">>>>
tStringBeans == <<"Class", <<"S", "t", "r", "i", "n", "g", "B", "e", "a", "n", "s">>>>
tMin == <<"FUNC", <<"m", "i", "n">>>>

\* the token sequences parse is run on: every short sequence over
\* TokenAlphabet, and the tokens of some longer programs
TokenAlphabet == {tID(nx), tNUMBER("1"), tOP("+"), tASSIGN, tEND, tDOT, tOP("("), tOP(")")}

\* "c" break~ continue
SampleSignals == <<tCHAR("c"), tBREAK, tEND, tCONTINUE>>
\* if (x < 1) { x = 1~ } else { break~ } y = 1~
SampleIfElse ==
    <<tIF, tOP("("), tID(nx), tOP("<"), tNUMBER("1"), tOP(")"), tOP("{"),
      tID(nx), tASSIGN, tNUMBER("1"), tEND, tOP("}"),
      tELSE, tOP("{"), tBREAK, tEND, tOP("}"),
      tID(ny), tASSIGN, tNUMBER("1"), tEND>>
\* if (x) { y = 1~ }
SampleIf ==
    <<tIF, tOP("("), tID(nx), tOP(")"), tOP("{"), tID(ny), tASSIGN, tNUMBER("1"), tEND,
      tOP("}")>>
\* while (x < 2) { x = x + 1 * 1~ }
SampleWhile ==
    <<tWHILE, tOP("("), tID(nx), tOP("<"), tNUMBER("2"), tOP(")"), tOP("{"),
      tID(nx), tASSIGN, tID(nx), tOP("+"), tNUMBER("1"), tOP("*"), tNUMBER("1"), tEND,
      tOP("}")>>
\* for (i = 0; i < 2; i = i + 1) { continue~ }
SampleFor ==
    <<tFOR, tOP("("), tID(ni), tASSIGN, tNUMBER("0"), tSEMICOLON,
      tID(ni), tOP("<"), tNUMBER("2"), tSEMICOLON,
      tID(ni), tASSIGN, tID(ni), tOP("+"), tNUMBER("1"), tOP(")"), tOP("{"),
      tCONTINUE, tEND, tOP("}")>>
\* a = StringBeans("x")~ a.Conjoin("y")~ z = min(1, 2)~
SampleCalls ==
    <<tID(na), tASSIGN, tStringBeans, tOP("("), tCHAR("x"), tOP(")"), tEND,
      tID(na), tDOT, tID(<<"C", "o", "n", "j", "o", "i", "n">>), tOP("("), tCHAR("y"),
      tOP(")"), tEND,
      tID(nz), tASSIGN, tMin, tOP("("), tNUMBER("1"), tCOMMA, tNUMBER("2"), tOP(")"), tEND>>

\* x = 1~ else { x = x + 1~ }   (code3 of the driver)
SampleElse ==
    <<tID(nx), tASSIGN, tNUMBER("1"), tEND,
      tELSE, tOP("{"), tID(nx), tASSIGN, tID(nx), tOP("+"), tNUMBER("1"), tEND, tOP("}")>>
\* if (x) { else { } }
SampleElseInBlock ==
    <<tIF, tOP("("), tID(nx), tOP(")"), tOP("{"), tELSE, tOP("{"), tOP("}"), tOP("}")>>
\* while (x) { } else { }
SampleElseAfterWhile ==
    <<tWHILE, tOP("("), tID(nx), tOP(")"), tOP("{"), tOP("}"), tELSE, tOP("{"), tOP("}")>>

\* short sequences in which else appears
MaxElseTokens == 3
ElseAlphabet == {tELSE, tEND, tNUMBER("1"), tOP("{"), tOP("}")}

\* 1 op1 2 op2 3~ and z = x op1 y op2 i~ for every two binary operators
ChainOfNumbers(op1, op2) ==
    <<tNUMBER("1"), <<"OP", op1>>, tNUMBER("2"), <<"OP", op2>>, tNUMBER("3"), tEND>>
ChainOfNames(op1, op2) ==
    <<tID(nz), tASSIGN, tID(nx), <<"OP", op1>>, tID(ny), <<"OP", op2>>, tID(ni), tEND>>
Chains ==
    {ChainOfNumbers(op1, op2) : op1, op2 \in ExpressionOps \cup TermOps}
        \cup {ChainOfNames(op1, op2) : op1, op2 \in ExpressionOps \cup TermOps}

TokenSequences ==
    SeqsUpTo(TokenAlphabet, MaxTokens)
        \cup Chains
        \cup SeqsUpTo(ElseAlphabet, MaxElseTokens)
        \cup {SampleSignals, SampleIfElse, SampleIf, SampleWhile, SampleFor, SampleCalls,
              SampleElse, SampleElseInBlock, SampleElseAfterWhile}

ParseInit ==
    /\ ptokens \in TokenSequences
    /\ pposition = 0
    /\ ast = <<>>
    /\ parseState = "run"

InitParser == ParseInit /\ LexIdle /\ InterpIdle
NextParser ==
    \/ ParseComment
    \/ ParseBreak
    \/ ParseContinue
    \/ ParseIdentifier
    \/ ParseIf
    \/ ParseLoop
    \/ ParseExpression
    \/ ParseReturn
SpecParser == InitParser /\ [][NextParser]_vars


(***************************************************************************)
(* The driver (the __main__ block): ast = parser.parse(), then             *)
(* interpreter.interpret(ast) on a new Interpreter, both inside one try.   *)
(***************************************************************************)
\* parse has returned its list: the statement after it is reached
Eager_parse_returned == parseState = "run" /\ ast # <<>>
parse_returned == parseState = "done"

\* interpreter.interpret(ast1): the call, before its first statement
DriverInterpret ==
    /\ parse_returned
    /\ status = Idle
    /\ program' = ast
    /\ pc' = 1
    /\ variables' = NewInterpreter.variables
    /\ Dict' = NewInterpreter.Dict
    /\ heap' = NewInterpreter.heap
    /\ current_statement' = NewInterpreter.current_statement
    /\ trace' = NewInterpreter.trace
    /\ status' = "run"
    /\ UNCHANGED <<lexVars, parseVars>>

NextDriver ==
    \/ ParseComment
    \/ ParseBreak
    \/ ParseContinue
    \/ ParseIdentifier
    \/ ParseIf
    \/ ParseLoop
    \/ ParseExpression
    \/ ParseReturn
    \/ DriverInterpret
    \/ InterpretAssignment
    \/ InterpretIfElse
    \/ InterpretWhile
    \/ InterpretFor
    \/ InterpretMethodCall
    \/ InterpretOther
    \/ InterpretEnd
SpecDriver == InitParser /\ [][NextDriver]_vars


(***************************************************************************)
(* The container classes used on their own: an Arrays or a Shmuple is      *)
(* constructed (it is heap[1]) and its methods are called, in any order.   *)
(* current_statement is the last call, <<method, arguments...>>; status is *)
(* "run" or the exception the last call raised, which the caller catches;  *)
(* trace is the one event of the last call: what it returned or raised.    *)
(***************************************************************************)
MaxSize == 3        \* the largest size an Arrays grows to, the longest Shmuple

Items == {IntV(1), IntV(2)}
Indices == (0 - MaxSize - 1)..MaxSize

ContainersInit ==
    /\ heap \in {<<Arrays(n)>> : n \in 0..MaxSize}
                \cup {<<Shmuple(t)>> : t \in SeqsUpTo(Items, MaxSize)}
    /\ program = <<>>
    /\ pc = 0
    /\ variables = EmptyMap
    /\ Dict = EmptyMap
    /\ current_statement = None
    /\ trace = <<>>
    /\ status = "run"

\* a method of the object of this class can be called
Holding(cls) == status \in {"run", "IndexError"} /\ heap # <<>> /\ heap[1].cls = cls

\* the call was made and m is what the method did
Called(call, m) ==
    /\ heap' = <<m.obj>>
    /\ current_statement' = call
    /\ status' = IF m.err = "" THEN "run" ELSE m.err
    /\ trace' = <<Ev(IF m.err = "" THEN "return" ELSE "raise", 0, call[1], m.v)>>
    /\ UNCHANGED <<program, pc, variables, Dict, lexVars, parseVars>>

ArraysAdd ==
    /\ Holding("Arrays")
    /\ heap[1].size < MaxSize
    /\ \E item \in Items : Called(<<"add", item>>, add(heap[1], item))

ArraysInsert ==
    /\ Holding("Arrays")
    /\ \E index \in Indices, item \in Items :
          Called(<<"insert", index, item>>, insert(heap[1], index, item))

ArraysRemove ==
    /\ Holding("Arrays")
    /\ \E index \in Indices : Called(<<"remove", index>>, remove(heap[1], index))

ArraysAt ==
    /\ Holding("Arrays")
    /\ \E index \in Indices : Called(<<"at", index>>, at(heap[1], index))

ShmupleGetitem ==
    /\ Holding("Shmuple")
    /\ \E index \in Indices : Called(<<"getitem", index>>, getitem(heap[1], index))

InitContainers == ContainersInit /\ LexIdle /\ ParseIdle
NextContainers ==
    \/ ArraysAdd
    \/ ArraysInsert
    \/ ArraysRemove
    \/ ArraysAt
    \/ ShmupleGetitem
SpecContainers == InitContainers /\ [][NextContainers]_vars


(***************************************************************************)
(* Properties.  trace holds the events of the run so far, each             *)
(* <<kind, depth, a, b>>: "exec" (execute_statement called on a statement  *)
(* of tag a assigning b), "body" (a loop reached the body statement of tag *)
(* a), "cond" (a loop of kind a evaluates its condition), "break" and      *)
(* "continue" (the loop of kind a set should_break, should_continue),      *)
(* "incr" (a for loop executes its increment), "exit" (the loop is left),  *)
(* "branch" (an if/else chose a branch), "write" (execute_method_call, for  *)
(* the call b, stored its result in the target of current_statement a).    *)
(* depth counts the loops around.                                          *)
(***************************************************************************)

\* the names a statement list assigns, directly or inside nested if/else
RECURSIVE AssignedIn(_)
AssignedIn(body) ==
    IF body = <<>> THEN {}
    ELSE AssignedIn(Tail(body)) \cup
         CASE body[1][1] = "ASSIGN" -> {body[1][2]}
           [] body[1][1] = "IF" -> AssignedIn(body[1][3])
           [] body[1][1] = "IF_ELSE" -> AssignedIn(body[1][3]) \cup AssignedIn(body[1][4])
           [] OTHER -> {}

\* the body of a loop statement, and the names only its body assigns
LoopBody(loop) == IF loop[1] = "WHILE" THEN loop[3] ELSE loop[5]
LoopCounter(loop) == IF loop[1] = "FOR" THEN {loop[2][2]} ELSE {}
LoopLocals(loop) == AssignedIn(LoopBody(loop)) \ LoopCounter(loop)

\* C1: when a top-level while or for statement ends normally, every name
\* that its body assigns (directly or inside a nested if/else) and that was
\* unbound when the loop started is unbound after it.
C1_LoopLocalsRemoved ==
    [][(At({"WHILE", "FOR"}) /\ status' = "run") =>
          \A n \in LoopLocals(program[pc]) :
              n \notin DOMAIN variables => n \notin DOMAIN variables']_vars

\* C2: when a loop reaches a break that is a direct statement of its body,
\* the next thing it does is set should_break and leave the loop: no body
\* statement, no condition and no increment comes between, and what follows
\* is outside that loop.
C2_DirectBreakExitsLoop ==
    \A k \in DOMAIN trace :
        (trace[k][1] = "body" /\ trace[k][3] = "BREAK") =>
            /\ k + 2 <= Len(trace)
            /\ trace[k + 1][1] = "break" /\ trace[k + 1][2] = trace[k][2]
            /\ trace[k + 2] = Ev("exit", trace[k][2], trace[k + 1][3], <<>>)
            /\ k + 3 <= Len(trace) => trace[k + 3][2] < trace[k][2]

\* a run in which a direct break was reached in a loop and the program ended
C2_Witness ==
    /\ status = "done"
    /\ \E k \in DOMAIN trace : trace[k][1] = "body" /\ trace[k][3] = "BREAK"

\* C3: when a continue signal reaches a for loop, the next thing the loop
\* does is execute its increment assignment, once, and then evaluate its
\* condition; when it reaches a while loop, the next thing is the condition.
\* No body statement comes between.  (Fuel: the model stops following a
\* statement after MaxIter condition evaluations.)
C3_ContinueSkipsToIncrement ==
    \A k \in DOMAIN trace :
        trace[k][1] = "continue" =>
            IF trace[k][3] = "FOR"
            THEN /\ k + 2 <= Len(trace)
                 /\ trace[k + 1] = Ev("incr", trace[k][2], "FOR", <<>>)
                 /\ trace[k + 2][1] = "exec" /\ trace[k + 2][3] = "ASSIGN"
                 /\ IF k + 3 <= Len(trace)
                    THEN trace[k + 3] = Ev("cond", trace[k][2], "FOR", <<>>)
                    ELSE status # "run" /\ status # "done"
            ELSE IF k + 1 <= Len(trace)
                 THEN trace[k + 1] = Ev("cond", trace[k][2], "WHILE", <<>>)
                 ELSE status = "Fuel"

\* a run in which a continue reached a for loop, the loop went on and ended
C3_Witness ==
    /\ status = "done"
    /\ \E k \in DOMAIN trace :
          /\ trace[k][1] = "continue" /\ trace[k][3] = "FOR"
          /\ k + 3 <= Len(trace)

\* C4: executing a top-level if statement without else whose condition is
\* truthy executes the first statement of its body.
C4_IfBodyExecuted ==
    [][(/\ At({"IF"})
        /\ program[pc][3] # <<>>
        /\ Truthy(evaluate_expression(Self, program[pc][2]).v)) =>
          \E k \in DOMAIN trace' :
              /\ k > Len(trace)
              /\ trace'[k] = Ev("exec", 0, program[pc][3][1][1],
                                Target(program[pc][3][1]))]_vars

\* C5: when a top-level for statement ends normally, its counter is bound
\* after it exactly if it was bound before it.
C5_CounterRemovedIffCreated ==
    [][(At({"FOR"}) /\ status' = "run") =>
          (program[pc][2][2] \in DOMAIN variables'
              <=> program[pc][2][2] \in DOMAIN variables)]_vars

\* C6: every pass of tokenize's loop after which tokenize goes on has moved
\* the read position forward, so tokenize ends after at most Len(code)
\* passes.
C6_CursorMovesForward ==
    [][(lexState = "run" /\ lexState' = "run") => position' > position]_vars

\* the string read through the variable n, None if n holds no StringBeans
StringOf(vs, hp, n) ==
    IF n \in DOMAIN vs /\ vs[n][1] = "ref" THEN hp[vs[n][2]].string_ ELSE None

\* the statement interpret is at calls a method on the object named r
CallsMethodOn(r) ==
    \/ At({"METHOD_CALL"}) /\ r = program[pc][2]
    \/ At({"ASSIGN"}) /\ program[pc][3][1] = "METHOD_CALL" /\ r = program[pc][3][2]

\* C7: two variables never hold the same StringBeans object, and a method
\* call on the object of one variable leaves the string read through every
\* other variable that holds a StringBeans unchanged.
C7_CopyOnAssign ==
    /\ [](\A m, n \in DOMAIN variables :
             (m # n /\ variables[m][1] = "ref" /\ variables[n][1] = "ref") =>
                 variables[m][2] # variables[n][2])
    /\ [][\A r \in DOMAIN variables : CallsMethodOn(r) =>
             \A n \in DOMAIN variables \ {r} :
                 (variables[n][1] = "ref" /\ ~(At({"ASSIGN"}) /\ n = program[pc][2])) =>
                     StringOf(variables', heap', n) = StringOf(variables, heap, n)]_vars

\* b was assigned from a, then a was changed by Conjoin: a reads "xy" and b
\* still reads "x"
C7_Witness ==
    /\ StringOf(variables, heap, na) = StrV(<<"x", "y">>)
    /\ StringOf(variables, heap, nb) = StrV(<<"x">>)

\* C8: in a source that starts with a-1 followed by a character that ends
\* the number, the second token is the operator OP(-).
C8_MinusAfterIdentifierIsOperator ==
    (/\ Len(code) >= 4
     /\ SubSeq(code, 1, 3) = <<"a", "-", "1">>
     /\ ~isdigit(code[4]) /\ code[4] # "."
     /\ Len(tokens) >= 2) => tokens[2] = <<"OP", <<"-">>>>

\* the statements without the break and continue statements that are in no
\* loop body
RECURSIVE StripSignals(_)
StripSignals(body) ==
    IF body = <<>> THEN <<>>
    ELSE CASE body[1][1] \in {"BREAK", "CONTINUE"} -> StripSignals(Tail(body))
           [] body[1][1] = "IF" ->
                <<<<"IF", body[1][2], StripSignals(body[1][3])>>>>
                    \o StripSignals(Tail(body))
           [] body[1][1] = "IF_ELSE" ->
                <<<<"IF_ELSE", body[1][2], StripSignals(body[1][3]),
                    StripSignals(body[1][4])>>>> \o StripSignals(Tail(body))
           [] OTHER -> <<body[1]>> \o StripSignals(Tail(body))

\* C9: when a program has ended, its variables are those the program
\* without its break and continue statements outside loops ends with.
C9_SignalOutsideLoopInert ==
    status = "done" =>
        variables = interpret(NewInterpreter, StripSignals(program)).variables

\* C10: parse of the tokens of x~ returns [Identifier(x)], and parse of the
\* tokens of x + 1~ returns [BinaryOp(+, Identifier(x), 1)].
C10_ExpressionStatementParsed ==
    /\ (ptokens = <<tID(nx), tEND>> /\ parseState # "run") =>
           parseState = "done" /\ ast = <<Id(nx)>>
    /\ (ptokens = <<tID(nx), tOP("+"), tNUMBER("1"), tEND>> /\ parseState # "run") =>
           parseState = "done" /\ ast = <<Bin("+", Id(nx), Number("1"))>>

\* the value of an operand that is a number or an identifier, an unbound
\* identifier counting as 0
OperandOr0(e) ==
    IF e[1] = "ID"
    THEN IF e[2] \in DOMAIN variables THEN variables[e[2]] ELSE IntV(0)
    ELSE IntV(IntOf(e[2]))

\* the statement interpret is at reads the name n as the given kind of read:
\* "statement" (an identifier statement), "source" (the whole right-hand side
\* of an assignment) or "operand" (an operand of the + or - whose value is
\* assigned, the other operand being a number or an identifier)
Reads(n, how) ==
    CASE how = "statement" -> At({"ID"}) /\ program[pc][2] = n
      [] how = "source" -> At({"ASSIGN"}) /\ program[pc][3] = Id(n)
      [] how = "operand" ->
            /\ At({"ASSIGN"})
            /\ program[pc][3][1] \in {"+", "-"}
            /\ Id(n) \in {program[pc][3][2], program[pc][3][3]}
            /\ \A k \in {2, 3} : program[pc][3][k][1] \in {"ID", "NUMBER"}

\* C11: an identifier statement, or an assignment whose right-hand side is
\* an identifier, that reads an unbound name fails with NameError and leaves
\* the variables as they were; an assignment of a + or - that has an unbound
\* identifier as operand does not fail and assigns the value computed with 0
\* for that operand.
C11_UnboundNameOutcomes ==
    [][\A n \in {nx, ny, nz} : n \notin DOMAIN variables =>
          /\ (Reads(n, "statement") \/ Reads(n, "source")) =>
                 status' = "NameError" /\ variables' = variables
          /\ Reads(n, "operand") =>
                 /\ status' = "run"
                 /\ variables' = Put(variables, program[pc][2],
                        apply_operator(Dict, program[pc][3][1],
                                       OperandOr0(program[pc][3][2]),
                                       OperandOr0(program[pc][3][3])).v)]_vars

\* y was unbound when z = 5 - y was executed, and z is 5; the statement y
\* then failed with NameError
C11_Witness ==
    /\ program = <<Assign(nz, Bin("-", Number("5"), Id(ny))), Id(ny)>>
    /\ status = "NameError"
    /\ variables = Put(EmptyMap, nz, IntV(5))

\* token sequences over TokenAlphabet that violate the grammar: the last
\* statement has no terminator (the sequence ends in the middle of a
\* statement), or a '(' is opened and no ')' is there to close it
EndsMidStatement(ts) == ts # <<>> /\ ts[Len(ts)] # tEND
Unclosed(ts) == tOP("(") \in Range(ts) /\ tOP(")") \notin Range(ts)
Malformed(ts) ==
    /\ Range(ts) \subseteq TokenAlphabet
    /\ EndsMidStatement(ts) \/ Unclosed(ts)

\* C12: parse of a token sequence that violates the grammar ends with
\* RuntimeError: it returns no AST and raises no other kind of exception.
C12_MalformedRaisesParseError ==
    (Malformed(ptokens) /\ parseState # "run") => parseState = "RuntimeError"

ElseAtStatementStart(ts) ==
    \E k \in DOMAIN ts :
        /\ ts[k] = tELSE
        /\ k = 1 \/ ts[k - 1] \in {tEND, tSEMICOLON, tOP("{")}

\* C14: parse of a token sequence in which else stands at the start of a
\* statement ends with RuntimeError and returns no AST; the statement that
\* starts with else raises it and adds nothing to the list.
C14_StrayElseRejected ==
    /\ []((ElseAtStatementStart(ptokens) /\ parseState # "run") =>
              parseState = "RuntimeError")
    /\ [][ParsingAt({"ELSE"}) => parseState' = "RuntimeError" /\ ast' = ast]_vars

\* parse of x = 1~ else { x = x + 1~ } failed at the else
C14_Witness ==
    /\ ptokens = SampleElse
    /\ parseState = "RuntimeError"
    /\ pposition = 4
    /\ ast = <<Assign(nx, Number("1"))>>

\* an if/else statement whose branches are each one assignment, both to the
\* same name
SameTargetBranches(st) ==
    /\ st[1] = "IF_ELSE"
    /\ Len(st[3]) = 1 /\ Len(st[4]) = 1
    /\ st[3][1][1] = "ASSIGN" /\ st[4][1][1] = "ASSIGN"
    /\ st[3][1][2] = st[4][1][2]

\* the assignment of the branch the condition selects, in the current state
SelectedAssignment(st) ==
    IF Truthy(evaluate_expression(Self, st[2]).v) THEN st[3][1] ELSE st[4][1]

ChainNode(t1, op1, t2, op2, t3) ==
    IF op1 \notin {<<"*">>, <<"/">>, <<"^">>} /\ op2 \in {<<"*">>, <<"/">>, <<"^">>}
    THEN <<OpTag(op1), t1, <<OpTag(op2), t2, t3>>>>
    ELSE <<OpTag(op2), <<OpTag(op1), t1, t2>>, t3>>

\* C16: for every two binary operators op1 and op2, parse of 1 op1 2 op2 3~
\* returns the chain node of the three numbers, and parse of
\* z = x op1 y op2 i~ the assignment of the chain node of the three names:
\* (op2, (op1, t1, t2), t3), except that * / ^ bind tighter than the others,
\* so that a + b * c is (+, a, (*, b, c)) and a ^ b ^ c is (^, (^, a, b), c).
C16_LeftAssociativeLayers ==
    \A op1, op2 \in {<<"+">>, <<"-">>, <<"<">>, <<">">>, <<"=", "=">>, <<"!", "=">>,
                      <<"&", "&">>, <<"|", "|">>, <<"*">>, <<"/">>, <<"^">>} :
        /\ (ptokens = ChainOfNumbers(op1, op2) /\ parseState # "run") =>
               /\ parseState = "done"
               /\ ast = <<ChainNode(Number("1"), op1, Number("2"), op2, Number("3"))>>
        /\ (ptokens = ChainOfNames(op1, op2) /\ parseState # "run") =>
               /\ parseState = "done"
               /\ ast = <<Assign(nz, ChainNode(Id(nx), op1, Id(ny), op2, Id(ni)))>>

\* parse of z = x + y * i~ returned z = (+, x, (*, y, i))
C16_Witness ==
    /\ ptokens = ChainOfNames(<<"+">>, <<"*">>)
    /\ parseState = "done"
    /\ ast = <<Assign(nz, Bin("+", Id(nx), Bin("*", Id(ny), Id(ni))))>>

\* the statement interpret is at assigns l == r or l != r, l and r being
\* literals of these kinds ("NUMBER" or "CHAR")
Compares(lkind, rkind) ==
    /\ At({"ASSIGN"})
    /\ program[pc][3][1] \in {"==", "!="}
    /\ program[pc][3][2][1] = lkind
    /\ program[pc][3][3][1] = rkind

\* the two integers are compared directly
ComparedDirectly ==
    /\ status' = "run"
    /\ variables' = Put(variables, program[pc][2],
           BoolV((program[pc][3][1] = "==") <=>
                     (IntOf(program[pc][3][2][2]) = IntOf(program[pc][3][3][2]))))

\* C17 as stated: == and != of a string literal on the left and a number on
\* the right fail with TypeError; of two numbers, they compare the numbers.
C17_LiteralThenNumberRejected ==
    [][/\ Compares("CHAR", "NUMBER") => status' = "TypeError"
       /\ Compares("NUMBER", "NUMBER") => ComparedDirectly]_vars

\* C17 amended: == and != of a number on the left and a string literal on the
\* right fail with TypeError and assign nothing; of two numbers, they compare
\* the numbers.
C17_NumberThenLiteralRejected ==
    [][/\ Compares("NUMBER", "CHAR") => status' = "TypeError" /\ variables' = variables
       /\ Compares("NUMBER", "NUMBER") => ComparedDirectly]_vars

\* z = 1 != "a" failed with TypeError
C17_Witness ==
    /\ program = <<Assign(nz, Bin("!=", Number("1"), Char("a")))>>
    /\ status = "TypeError"
    /\ variables = EmptyMap

Without(s, i) == SubSeq(s, 1, i) \o SubSeq(s, i + 2, Len(s))

\* the call made by the step is of this method
CallOf(method) == Holding("Arrays") /\ current_statement'[1] = method

\* the index of the call made by the step is outside 0..size-1
OutOfBounds == current_statement'[2] < 0 \/ current_statement'[2] >= heap[1].size

\* C19: the size of an Arrays always equals the length of its list; add
\* makes the size one more and appends the item, the elements before it
\* unchanged; remove(i) with i in bounds makes the size one less and leaves
\* the other elements in their order; at, insert and remove with an index
\* out of bounds raise IndexError and leave size and list unchanged.
C19_ArraysSizeIsLength ==
    /\ [](Holding("Arrays") => heap[1].size = Len(heap[1].array))
    /\ [][CallOf("add") =>
              (/\ heap'[1].size = heap[1].size + 1
               /\ heap'[1].array = Append(heap[1].array, current_statement'[2]))]_vars
    /\ [][(CallOf("remove") /\ ~OutOfBounds) =>
              (/\ status' = "run"
               /\ heap'[1].size = heap[1].size - 1
               /\ heap'[1].array = Without(heap[1].array, current_statement'[2]))]_vars
    /\ [][((CallOf("at") \/ CallOf("insert") \/ CallOf("remove")) /\ OutOfBounds) =>
              (/\ status' = "IndexError"
               /\ heap' = heap)]_vars

\* an Arrays made with size 0 has grown to 1, 2 after add(1), add(2),
\* remove(0), add(2), and a call was then rejected
C19_Witness ==
    /\ Holding("Arrays")
    /\ heap[1].size = 2
    /\ heap[1].array = <<IntV(2), IntV(2)>>
    /\ status = "IndexError"
    /\ current_statement = <<"remove", 2>>

\* C20: getitem(i) of a Shmuple returns the element at position i when
\* 0 <= i < length, and for every other integer i raises IndexError naming i
\* and the length.
C20_GetitemBoundsChecked ==
    [][(Holding("Shmuple") /\ current_statement'[1] = "getitem") =>
          IF 0 <= current_statement'[2] /\ current_statement'[2] < Len(heap[1].myTuple)
          THEN /\ status' = "run"
               /\ trace' = <<Ev("return", 0, "getitem",
                                 heap[1].myTuple[current_statement'[2] + 1])>>
          ELSE /\ status' = "IndexError"
               /\ trace' = <<Ev("raise", 0, "getitem",
                                 <<current_statement'[2], Len(heap[1].myTuple)>>)>>]_vars

\* C21: a break or continue statement executed in a branch of an if/else
\* inside a loop, at any nesting of if/else, is followed at once by the loop
\* around it setting should_break or should_continue, and a break by that
\* loop being left.
C21_NestedSignalReachesLoop ==
    \A k \in DOMAIN trace :
        (trace[k][1] = "exec" /\ trace[k][3] \in {"BREAK", "CONTINUE"} /\ trace[k][2] >= 1) =>
            /\ k + 1 <= Len(trace)
            /\ trace[k + 1][1] = (IF trace[k][3] = "BREAK" THEN "break" ELSE "continue")
            /\ trace[k + 1][2] = trace[k][2]
            /\ trace[k][3] = "BREAK" =>
                   /\ k + 2 <= Len(trace)
                   /\ trace[k + 2] = Ev("exit", trace[k][2], trace[k + 1][3], <<>>)

\* e is the expression call, or call is one of its arguments or operands
RECURSIVE HasCall(_, _)
HasCall(e, call) ==
    \/ e = call
    \/ e[1] \in BinaryOps /\ (HasCall(e[2], call) \/ HasCall(e[3], call))
    \/ e[1] = "METHOD_CALL" /\ \E k \in DOMAIN e[4] : HasCall(e[4][k], call)
    \/ e[1] \in {"CALL", "CLASS_INST"} /\ \E k \in DOMAIN e[3] : HasCall(e[3][k], call)

\* C22: whenever executing a method call stores its result in a variable,
\* the statement being executed is the top-level assignment the call is the
\* right-hand side of (or an argument of its right-hand side); a statement
\* that is a method call, or an if/else or a loop with a method call as its
\* condition, makes no such store for that call.
C22_MethodCallWritesOnlyItsAssignment ==
    [][\A k \in DOMAIN trace' :
          (k > Len(trace) /\ trace'[k][1] = "write") =>
              /\ At({"ASSIGN"})
              /\ trace'[k][3] = program[pc]
              /\ HasCall(program[pc][3], trace'[k][4])]_vars

\* the branch of the if/else statement st that its condition selects now
TakenBranch(st) ==
    IF Truthy(evaluate_expression(Self, st[2]).v) THEN st[3] ELSE st[4]

\* the names that assignment statements of the statement list assign
Assigns(body) == {body[k][2] : k \in {j \in DOMAIN body : body[j][1] = "ASSIGN"}}

\* the statement list holds only assignments
OnlyAssigns(body) == \A k \in DOMAIN body : body[k][1] = "ASSIGN"

\* C23: after a top-level if/else statement whose executed branch consists
\* of assignments, every variable that was bound before it is still bound,
\* and one that the branch assigns holds the value its last assignment in
\* the branch gave it.
C23_ReassignedVariableKept ==
    [][(At({"IF_ELSE"}) /\ OnlyAssigns(TakenBranch(program[pc])) /\ status' = "run") =>
          \A n \in DOMAIN variables :
              /\ n \in DOMAIN variables'
              /\ n \in Assigns(TakenBranch(program[pc])) =>
                     variables'[n] = interpret(Self, TakenBranch(program[pc])).variables[n]]_vars

\* C24: after a top-level if/else statement whose executed branch consists
\* of assignments, every variable that an assignment of the if branch and
\* an assignment of the else branch assign is bound.
C24_AssignedInBothBranchesKept ==
    [][(At({"IF_ELSE"}) /\ OnlyAssigns(TakenBranch(program[pc])) /\ status' = "run") =>
          \A n \in Assigns(program[pc][3]) \cap Assigns(program[pc][4]) :
              n \in DOMAIN variables']_vars

\* C25: between statements and at the end of the program, every variable
\* bound to an integer or a boolean is bound to the same value in the math
\* helper's dictionary.
C25_DictMirrorsVariables ==
    status \in {"run", "done"} =>
        \A n \in DOMAIN variables :
            variables[n][1] \in {"int", "bool"} =>
                n \in DOMAIN Dict /\ Dict[n] = variables[n]

\* the statement list and the branches and bodies in it hold no == or !=
\* and no call: nothing but a del can raise KeyError in it
RECURSIVE Plain(_)
Plain(body) ==
    \A k \in DOMAIN body :
        CASE body[k][1] = "ASSIGN" -> body[k][3][1] \in {"NUMBER", "ID", "+", "-"}
          [] body[k][1] = "IF" -> body[k][2][1] \in {"<", ">"} /\ Plain(body[k][3])
          [] body[k][1] = "IF_ELSE" ->
                body[k][2][1] \in {"<", ">"} /\ Plain(body[k][3]) /\ Plain(body[k][4])
          [] body[k][1] = "WHILE" -> body[k][2][1] \in {"<", ">"} /\ Plain(body[k][3])
          [] body[k][1] = "FOR" ->
                body[k][3][1] \in {"<", ">"} /\ Plain(<<body[k][2], body[k][4]>> \o body[k][5])
          [] OTHER -> body[k][1] \in {"BREAK", "CONTINUE", "COMMENT"}

\* C26: a top-level if/else, for or while statement never ends with a
\* KeyError from deleting an unbound name in its cleanup or in the cleanup
\* of an if/else in its body or branch.  (Plain: the statement has no
\* other source of KeyError: no == or != and no call.)
C26_CleanupDeletesBoundNames ==
    [][(At({"IF_ELSE", "FOR", "WHILE"}) /\ Plain(<<program[pc]>>)) =>
          status' # "KeyError"]_vars

\* the boolean an expression evaluates to now, None if it is no boolean
BoolOf(e) ==
    IF evaluate_expression(Self, e).v[1] = "bool" THEN evaluate_expression(Self, e).v
    ELSE None

\* C27: an assignment z = l == r~ with boolean operands binds z to True
\* exactly if l and r are the same boolean, and z = l != r~ exactly if they
\* are not.
C27_BooleanEquality ==
    [][(/\ At({"ASSIGN"})
        /\ program[pc][3][1] \in {"==", "!="}
        /\ BoolOf(program[pc][3][2]) # None
        /\ BoolOf(program[pc][3][3]) # None) =>
          /\ status' = "run"
          /\ variables'[program[pc][2]] =
                 BoolV((BoolOf(program[pc][3][2]) = BoolOf(program[pc][3][3]))
                          <=> program[pc][3][1] = "==")]_vars

====
